---- MODULE Spec2Model ----
(***************************************************************************)
(* terminal-ai: multi-provider request dispatch and fallback.              *)
(* The model follows src/main.go (first program of the file, lines 1-2680) *)
(* and the web handlers that call into it.                                 *)
(***************************************************************************)
EXTENDS Integers, Sequences, FiniteSets, TLC

\* ------------------------------------------------------------------ bounds
\* largest max_retries value a loaded providers.json carries in the model
MaxRetriesCfg == 0
\* largest priority number given to set-priority
MaxPriority == 0

\* longest error text, envelope message and envelope type given to
\* classifyError, in tokens
MaxTextLen == 2

\* most complete lines in a streamed response body
MaxLines == 2

\* longest list given to "provider byok order"
MaxOrder == 2

\* --------------------------------------------------------- program constants
DefaultMaxRetries == 2
DefaultRetryDelayMs == 1000

\* ------------------------------------------------------------------- texts
\* A text is a sequence of tokens; strings.Contains is "contiguous
\* subsequence of tokens".
Contains(s, sub) ==
    \E i \in 0..(Len(s) - Len(sub)) :
        \A k \in 1..Len(sub) : s[i + k] = sub[k]

RECURSIVE SprintfNoArgs(_)
\* fmt.Sprintf(format) with no operands: "%%" prints "%", "%" followed by
\* a verb prints "%!verb(MISSING)" in place of both, a trailing "%" prints
\* "%!(NOVERB)"; every other token is copied.
SprintfNoArgs(format) ==
    IF format = <<>> THEN <<>>
    ELSE IF Head(format) # "%" THEN <<Head(format)>> \o SprintfNoArgs(Tail(format))
    ELSE IF Len(format) = 1 THEN <<"%!(NOVERB)">>
    ELSE IF format[2] = "%" THEN <<"%">> \o SprintfNoArgs(Tail(Tail(format)))
    ELSE <<"%!verb(MISSING)">> \o SprintfNoArgs(Tail(Tail(format)))

\* ------------------------------------------------------------------- types
Names == {"openrouter", "gemini", "groq"}

NoError == [present |-> FALSE]
APIError(message, type) == [present |-> TRUE, Message |-> message, Type |-> type]

NilErr == <<"<nil>">>
NilResponse == [nil |-> TRUE]
Response(choices, error) == [nil |-> FALSE, Choices |-> choices, Error |-> error]


NilError == [nil |-> TRUE]
Err(text) == [nil |-> FALSE, text |-> text]
ErrorText(e) == IF e.nil THEN NilErr ELSE e.text

\* ------------------------------------------------- what a provider answers
\* One entry per way an attempt can end: an error before or during the
\* exchange (no response at all), or an HTTP status with a body.
Garbage == [valid |-> FALSE]
JsonBody(choices, error) == [valid |-> TRUE, Choices |-> choices, Error |-> error]

MsgRateLimit == <<"rate", "limit", "exceeded">>
MsgServer == <<"internal", "error">>
MsgPercent == <<"quota", "100", "%", "used">>
TypeRateLimit == <<"rate_limit", "error">>
TypeServer == <<"server_error">>

TxtMarshal == <<"json:", "unsupported", "value">>
TxtTimeout == <<"context", "deadline", "exceeded">>
TxtConn == <<"connection", "refused">>
TxtNoHost == <<"no", "such", "host">>

NoAnswer == [kind |-> "none"]

Outcomes ==
    { [kind |-> "marshal", text |-> TxtMarshal],
      [kind |-> "transport", text |-> TxtTimeout],
      [kind |-> "transport", text |-> TxtConn],
      [kind |-> "transport", text |-> TxtNoHost],
      [kind |-> "http", status |-> 200, body |-> JsonBody(<<"content">>, NoError)],
      [kind |-> "http", status |-> 200, body |-> Garbage],
      [kind |-> "http", status |-> 200, body |-> JsonBody(<<>>, APIError(<<>>, <<>>))],
      [kind |-> "http", status |-> 429, body |-> JsonBody(<<>>, APIError(MsgRateLimit, TypeRateLimit))],
      [kind |-> "http", status |-> 429, body |-> Garbage],
      [kind |-> "http", status |-> 500, body |-> JsonBody(<<>>, APIError(MsgServer, TypeServer))],
      [kind |-> "http", status |-> 500, body |-> JsonBody(<<>>, APIError(MsgPercent, TypeServer))] }

\* variant: the decode failure is turned into an error envelope
Unmarshal_parseError(body) ==
    IF body.valid THEN Response(body.Choices, body.Error)
    ELSE Response(<<>>, APIError(<<"invalid", "character">>, <<>>))

\* json.Unmarshal(body, &response) with its error ignored: a body that is
\* not JSON leaves the zero Response.
Unmarshal(body) ==
    IF body.valid THEN Response(body.Choices, body.Error)
    ELSE Response(<<>>, NoError)

\* makeRequest: <<response, err>> for what the provider answered.  The
\* HTTP status is never read.
makeRequest(provider, o) ==
    IF o.kind = "marshal" THEN <<NilResponse, Err(o.text)>>
    ELSE IF o.kind = "transport" THEN <<NilResponse, Err(o.text)>>
    ELSE <<Unmarshal(o.body), NilError>>

\* variant: the error envelope is looked at before the transport error
classifyError_envelopeFirst(err, response) ==
    IF ~response.nil /\ response.Error.present
    THEN IF \/ Contains(response.Error.Type, <<"rate_limit">>)
            \/ Contains(response.Error.Message, <<"rate", "limit">>)
            \/ Contains(response.Error.Message, <<"429">>)
         THEN "rate_limit"
         ELSE "server_error"
    ELSE IF ~err.nil /\ (Contains(err.text, <<"timeout">>)
                         \/ Contains(err.text, <<"deadline", "exceeded">>))
    THEN "timeout"
    ELSE IF ~err.nil /\ (Contains(err.text, <<"connection">>)
                         \/ Contains(err.text, <<"network">>))
    THEN "network"
    ELSE "unknown"

\* classifyError: the transport error's text first, then the envelope
classifyError(err, response) ==
    IF ~err.nil /\ (Contains(err.text, <<"timeout">>)
                    \/ Contains(err.text, <<"deadline", "exceeded">>))
    THEN "timeout"
    ELSE IF ~err.nil /\ (Contains(err.text, <<"connection">>)
                         \/ Contains(err.text, <<"network">>))
    THEN "network"
    ELSE IF ~response.nil /\ response.Error.present
    THEN IF \/ Contains(response.Error.Type, <<"rate_limit">>)
            \/ Contains(response.Error.Message, <<"rate", "limit">>)
            \/ Contains(response.Error.Message, <<"429">>)
         THEN "rate_limit"
         ELSE "server_error"
    ELSE "unknown"

\* combineErrors: the text of the error it returns.
combineErrors(err, response) ==
    IF ~err.nil /\ ~response.nil /\ response.Error.present
    THEN err.text \o <<":">> \o response.Error.Message
    ELSE IF ~err.nil THEN err.text
    ELSE IF ~response.nil /\ response.Error.present
    THEN SprintfNoArgs(response.Error.Message)
    ELSE <<"unknown", "error">>

\* variant: any error envelope, even with an empty message, is a failure
IsSuccess_noEnvelope(response, err) ==
    err.nil /\ ~response.Error.present

\* makeRequestWithFallback line 2255: the attempt counts as a success
IsSuccess(response, err) ==
    err.nil /\ (~response.Error.present \/ response.Error.Message = <<>>)


\* ------------------------------------------------------------------- state
VARIABLES
    providerConfig,     \* ProviderGlobalConfig: FallbackEnabled, RetryDelayMs, Providers
    providers,          \* map name -> AIProvider (Name, APIKey)
    streamingEnabled,   \* STREAMING environment switch
    pc,                 \* "idle", "select", "attempt", "done", "reported"
    requested,          \* providerName handed to the chat command
    orderedProviders,   \* makeRequestWithFallback: the list being ranged over
    idx,                \* position of the range loop in orderedProviders
    retry,              \* the retry loop's counter
    attemptedProviders, \* makeRequestWithFallback: attemptedProviders map
    config,             \* makeRequestWithFallback: the range loop's copy of the policy
    lastError,          \* makeRequestWithFallback: lastError (text, or nil)
    result,             \* what the request returned: response, provider, err
    reported,           \* what the chat command told its caller
    trace,              \* history: sleeps and network attempts of this request
    answer,             \* history: what the provider answered to the latest attempt
    streamPhase         \* history: where a streaming request failed

VARIABLES
    classified,         \* history: the latest call of classifyError, with its result
    byokConfig,         \* providerConfig.Providers["openrouter"].BYOKConfig
    reqBody,            \* makeRequest: the payload json.Marshal built
    respBody,           \* resp.Body: what the provider has still to deliver
    reader,             \* bufio.Reader: bytes read from resp.Body, not yet returned
    stdout,             \* the fragments fmt.Print wrote, in order
    capturedContent,    \* makeStreamingRequestWithCapture: the strings.Builder
    capture,            \* the caller's string that *capture points to
    streamErr,          \* what the streaming request returned
    streamBody          \* the whole body of the streamed response and how it ends

VARIABLES
    script,             \* what the providers answer, attempt after attempt
    firstRun            \* history: the makeRequestWithFallback call before this one

VARIABLES
    snapshot,           \* history: the registry when the running dispatch began
    cancelled,          \* the web request's context is done: its client has gone
    writes              \* history: configuration requests the server has served

VARIABLES
    sessions,           \* SecurityManager.sessions: token -> Session
    now,                \* time.Now(), in hours since the server started
    issued,             \* history: the tokens Authenticate has returned
    revoked,            \* history: the tokens passed to Logout
    validated           \* history: the latest ValidateSession call, when it was made
                        \* and whether its token had been logged out, and its result

VARIABLES
    chatHistory,        \* chatHistory.Sessions: the slice of chat sessions
    requests,           \* the history handlers running, one goroutine each
    sentMessages,       \* history: the latest message list built for a provider
    effect,             \* history: the latest thing a history request did to a
                        \* session: who asked, and whose session it was
    tick                \* time.Now() as the history functions read it

VARIABLES
    prevOrdered         \* history: the latest "provider list": the policy set and the list

classifyVars == <<classified>>
byokVars == <<byokConfig, reqBody>>
streamVars == <<respBody, reader, stdout, capturedContent, capture, streamErr,
                streamBody>>
listVars == <<prevOrdered>>
replayVars == <<script, firstRun>>
webVars == <<snapshot, cancelled, writes>>
securityVars == <<sessions, now, issued, revoked, validated>>
sessionVars == <<chatHistory, requests, sentMessages, effect, tick>>
laterVars == <<listVars, replayVars, webVars, securityVars, sessionVars>>
otherVars == <<classifyVars, byokVars, streamVars, laterVars>>

vars == <<providerConfig, providers, streamingEnabled, pc, requested,
          orderedProviders, idx, retry, attemptedProviders, config, lastError,
          result, reported, trace, answer, streamPhase, otherVars>>

cfgVars == <<providerConfig, providers, streamingEnabled>>
dispatchVars == <<orderedProviders, idx, retry, attemptedProviders, config,
                  lastError>>
historyVars == <<trace, answer, streamPhase>>

AIProviderConfig(priority, enabled, maxRetries) ==
    [Priority |-> priority, Enabled |-> enabled, MaxRetries |-> maxRetries]

AIProvider(name, apiKey) == [Name |-> name, APIKey |-> apiKey]

\* the zero AIProvider a map lookup of a missing key gives
ZeroProvider == AIProvider("", "")

\* the zero AIProviderConfig a map lookup of a missing key gives
ZeroConfig == AIProviderConfig(0, FALSE, 0)

\* providerConfig.Providers[name]
ConfigOf(name) ==
    IF name \in DOMAIN providerConfig.Providers
    THEN providerConfig.Providers[name] ELSE ZeroConfig

Lookup(name) == IF name \in DOMAIN providers THEN providers[name] ELSE ZeroProvider

DefaultPriority == [n \in Names |->
    IF n = "openrouter" THEN 1 ELSE IF n = "gemini" THEN 2 ELSE 3]

NoResult == [response |-> NilResponse, provider |-> "", err |-> NilError]

\* max_retries of the three stock providers: what createDefaultProviderConfig
\* wrote, or what an edited providers.json carries
LoadedMaxRetries ==
    [Names -> 0..MaxRetriesCfg] \cup {[n \in Names |-> DefaultMaxRetries]}

NoCall == [fn |-> "none"]
NilBYOK == [nil |-> TRUE]
NoPayload == [built |-> FALSE]
NoBody == [bytes |-> <<>>, end |-> "none"]
NoListing == [called |-> FALSE]
NoRun == [done |-> FALSE]
NoSnapshot == [taken |-> FALSE]
NoValidation == [called |-> FALSE]
NoMessages == [built |-> FALSE]
NoEffect == [made |-> FALSE]
\* chatHistory.Sessions is a slice: len elements of a backing array
NoHistory == [array |-> <<>>, len |-> 0]

\* no classifyError call, no BYOK configuration, no request built, no
\* stream open
QuietInit ==
    /\ classified = NoCall
    /\ byokConfig = NilBYOK
    /\ reqBody = NoPayload
    /\ respBody = NoBody
    /\ reader = <<>>
    /\ stdout = <<>>
    /\ capturedContent = <<>>
    /\ capture = <<>>
    /\ streamErr = NilError
    /\ prevOrdered = NoListing
    /\ firstRun = NoRun
    /\ snapshot = NoSnapshot
    /\ cancelled = FALSE
    /\ writes = 0
    /\ sessions = <<>>
    /\ now = 0
    /\ issued = {}
    /\ revoked = {}
    /\ validated = NoValidation
    /\ sentMessages = NoMessages
    /\ effect = NoEffect

OtherInit ==
    /\ QuietInit
    /\ streamBody = NoBody
    /\ script = <<>>
    /\ chatHistory = NoHistory /\ requests = <<>> /\ tick = 0

\* loadProviderConfig: the three stock providers as the saved file has
\* them.  No command has run yet.
ProgramInit ==
    /\ \E mr \in LoadedMaxRetries, fb \in BOOLEAN :
         providerConfig =
           [FallbackEnabled |-> fb,
            RetryDelayMs |-> DefaultRetryDelayMs,
            Providers |-> [n \in Names |->
                             AIProviderConfig(DefaultPriority[n], TRUE, mr[n])]]
    /\ providers = [n \in Names |-> AIProvider(n, "")]
    /\ streamingEnabled = FALSE
    /\ pc = "idle"
    /\ requested = ""
    /\ orderedProviders = <<>>
    /\ idx = 0
    /\ retry = 0
    /\ attemptedProviders = {}
    /\ config = ZeroConfig
    /\ lastError = NilError
    /\ result = NoResult
    /\ reported = "none"
    /\ trace = <<>>
    /\ answer = NoAnswer
    /\ streamPhase = "none"

Init == ProgramInit /\ OtherInit

\* the configuration createDefaultProviderConfig writes, untouched
StockInit ==
    /\ Init
    /\ providerConfig.FallbackEnabled
    /\ \A n \in Names : providerConfig.Providers[n].MaxRetries = DefaultMaxRetries

\* ------------------------------------------------------- priority resolver
\* Sequences over S without repetition that use every element of S.
Perms(S) ==
    { s \in [1..Cardinality(S) -> S] :
        \A i, j \in 1..Cardinality(S) : i # j => s[i] # s[j] }

EnabledNames(cfg) == { n \in DOMAIN cfg.Providers : cfg.Providers[n].Enabled }

\* variant: the Enabled test of line 269 is missing
getOrderedProviders_all(cfg) ==
    { s \in Perms(DOMAIN cfg.Providers) :
        \A i, j \in 1..Len(s) :
            i < j => ~(cfg.Providers[s[j]].Priority < cfg.Providers[s[i]].Priority) }

\* variant: the comparison of sort.Slice is the wrong way round
getOrderedProviders_descending(cfg) ==
    { s \in Perms(EnabledNames(cfg)) :
        \A i, j \in 1..Len(s) :
            i < j => ~(cfg.Providers[s[j]].Priority > cfg.Providers[s[i]].Priority) }

\* getOrderedProviders: the enabled names sorted by priority.  The names
\* come out of a map range and sort.Slice is not stable, so equal
\* priorities may come in any order.
getOrderedProviders(cfg) ==
    { s \in Perms(EnabledNames(cfg)) :
        \A i, j \in 1..Len(s) :
            i < j => ~(cfg.Providers[s[j]].Priority < cfg.Providers[s[i]].Priority) }


\* ------------------------------------------------ provider configuration
\* Each CLI command is one process run: it starts from the saved
\* configuration, and a configuration command leaves nothing else behind.
NoRequest ==
    /\ providers' = [n \in Names |-> AIProvider(n, "")]
    /\ streamingEnabled' = FALSE
    /\ pc' = "idle"
    /\ requested' = ""
    /\ orderedProviders' = <<>>
    /\ idx' = 0
    /\ retry' = 0
    /\ attemptedProviders' = {}
    /\ config' = ZeroConfig
    /\ lastError' = NilError
    /\ result' = NoResult
    /\ reported' = "none"
    /\ trace' = <<>>
    /\ answer' = NoAnswer
    /\ streamPhase' = "none"
    /\ UNCHANGED otherVars

toggleProvider(providerName, enabled) ==
    /\ pc = "idle"
    /\ providerName \in DOMAIN providerConfig.Providers
    /\ providerConfig.Providers[providerName].Enabled # enabled
    /\ providerConfig' =
         [providerConfig EXCEPT !.Providers[providerName].Enabled = enabled]
    /\ NoRequest

setProviderPriority(providerName, priority) ==
    /\ pc = "idle"
    /\ providerName \in DOMAIN providerConfig.Providers
    /\ providerConfig.Providers[providerName].Priority # priority
    /\ providerConfig' =
         [providerConfig EXCEPT !.Providers[providerName].Priority = priority]
    /\ NoRequest

\* variant: the provider the caller asked for goes first
DispatchOrder_requestedFirst(providerName, cfg) ==
    { <<providerName>> \o SelectSeq(s, LAMBDA n : n # providerName) :
        s \in { t \in getOrderedProviders(cfg) :
                   \E i \in 1..Len(t) : t[i] = providerName } }
    \cup { t \in getOrderedProviders(cfg) :
             \A i \in 1..Len(t) : t[i] # providerName }

\* makeRequestWithFallback lines 2218-2224: the list the range loop runs
\* over.  The providerName parameter is shadowed by the loop variable and
\* endpoint and apiKey are never read.
DispatchOrder(providerName, cfg) == getOrderedProviders(cfg)

\* --------------------------------------------------------- the chat command
Attempt(p, r) == [op |-> "attempt", provider |-> p, retry |-> r]
Sleep(p, ms) == [op |-> "sleep", provider |-> p, ms |-> ms]

FreshHistory ==
    /\ trace' = <<>>
    /\ answer' = NoAnswer
    /\ streamPhase' = "none"

\* main line 327 and initProviders: the process reads the STREAMING switch
\* and the credentials from its environment
Environments == [streaming : BOOLEAN, keys : [Names -> {"", "key"}]]

StartProcess(env) ==
    /\ streamingEnabled' = env.streaming
    /\ providers' = [n \in Names |-> AIProvider(n, env.keys[n])]

FreshDispatch ==
    /\ idx' = 0
    /\ retry' = 0
    /\ attemptedProviders' = {}
    /\ config' = ZeroConfig
    /\ lastError' = NilError
    /\ orderedProviders' = <<>>

\* chatWithAI lines 2077-2086: unknown provider or no credential, os.Exit(1)
ChatExit(providerName, env) ==
    /\ pc = "idle"
    /\ StartProcess(env)
    /\ env.keys[providerName] = ""
    /\ requested' = providerName
    /\ reported' = "exit"
    /\ result' = NoResult
    /\ pc' = "reported"
    /\ FreshDispatch
    /\ FreshHistory
    /\ UNCHANGED providerConfig
    /\ UNCHANGED otherVars

\* chatWithAI lines 2123-2137: streaming mode calls makeStreamingRequest on
\* the requested provider, whatever FallbackEnabled says.  phase tells how
\* the request ended: "connect" is an error before the first line is read,
\* "midstream" an error while lines are read, "none" a complete stream.
ChatStreaming(providerName, env, phase) ==
    /\ pc = "idle"
    /\ StartProcess(env)
    /\ env.keys[providerName] # ""
    /\ env.streaming
    /\ requested' = providerName
    /\ trace' = <<Attempt(providerName, 0)>>
    /\ streamPhase' = phase
    /\ answer' = NoAnswer
    /\ reported' = IF phase = "none" THEN "ok" ELSE "stream_error"
    /\ result' = NoResult
    /\ pc' = "reported"
    /\ FreshDispatch
    /\ UNCHANGED providerConfig
    /\ UNCHANGED otherVars

\* chatWithAI lines 2140-2145 with makeRequestWithFallback lines 2219-2222
ChatFallback(providerName, env) ==
    /\ pc = "idle"
    /\ StartProcess(env)
    /\ env.keys[providerName] # ""
    /\ ~env.streaming
    /\ providerConfig.FallbackEnabled
    /\ requested' = providerName
    /\ orderedProviders' \in DispatchOrder(providerName, providerConfig)
    /\ idx' = 1
    /\ retry' = 0
    /\ attemptedProviders' = {}
    /\ config' = ZeroConfig
    /\ lastError' = NilError
    /\ pc' = "select"
    /\ result' = NoResult
    /\ reported' = "none"
    /\ FreshHistory
    /\ UNCHANGED providerConfig
    /\ UNCHANGED otherVars

\* variant: the wait of line 2250 is outside the test of line 2248
Record_sleepAlways(p, r, o) ==
    /\ trace' = trace \o <<Sleep(p, providerConfig.RetryDelayMs)>>
                       \o <<Attempt(p, r)>>
    /\ answer' = o

\* variant: the wait grows with the retry counter
Record_backoff(p, r, o) ==
    /\ trace' = trace \o (IF r > 0
                          THEN <<Sleep(p, providerConfig.RetryDelayMs * r)>>
                          ELSE <<>>) \o <<Attempt(p, r)>>
    /\ answer' = o

\* history kept with every network attempt of makeRequestWithFallback: the
\* time.Sleep of line 2250 when this is a retry, then the attempt
Record(p, r, o) ==
    /\ trace' = trace \o (IF r > 0
                          THEN <<Sleep(p, providerConfig.RetryDelayMs)>>
                          ELSE <<>>) \o <<Attempt(p, r)>>
    /\ answer' = o

\* chatWithAI line 2147: one makeRequest on the requested provider
ChatDirect(providerName, env, o) ==
    /\ pc = "idle"
    /\ StartProcess(env)
    /\ env.keys[providerName] # ""
    /\ ~env.streaming
    /\ ~providerConfig.FallbackEnabled
    /\ requested' = providerName
    /\ LET rr == makeRequest(providerName, o) IN
         result' = [response |-> rr[1], provider |-> providerName, err |-> rr[2]]
    /\ trace' = <<Attempt(providerName, 0)>>
    /\ answer' = o
    /\ streamPhase' = "none"
    /\ pc' = "done"
    /\ reported' = "none"
    /\ FreshDispatch
    /\ UNCHANGED providerConfig
    /\ UNCHANGED otherVars

\* chatWithAI lines 2151-2166: what the command tells its caller
ChatReturn ==
    /\ pc = "done"
    /\ reported' = IF ~result.err.nil THEN "error"
                   ELSE IF result.response.Error.present THEN "api_error"
                   ELSE "ok"
    /\ pc' = "reported"
    /\ UNCHANGED <<providerConfig, providers, streamingEnabled, requested, result>>
    /\ UNCHANGED dispatchVars
    /\ UNCHANGED historyVars
    /\ UNCHANGED otherVars


\* ------------------------------------------------- makeRequestWithFallback
\* variant: the credential is not looked at
Skipped_noKeyCheck(name) ==
    \/ name \in attemptedProviders
    \/ ~ConfigOf(name).Enabled

\* lines 2225-2240: the range loop passes over this provider
Skipped(name) ==
    \/ name \in attemptedProviders
    \/ ~ConfigOf(name).Enabled
    \/ Lookup(name).APIKey = ""

\* variant: the budget checks compare with <= and allow one retry more
RetryDecision_offByOne(errorType, r, maxRetries) ==
    IF r <= maxRetries THEN "continue" ELSE "break"

\* lines 2263-2282 and the retry loop's header: after a failed attempt,
\* "continue" runs the next retry on the same provider, "break" leaves the
\* retry loop.  A category without a branch of its own falls through to
\* the loop's post statement and condition.
RetryDecision(errorType, r, maxRetries) ==
    IF errorType = "rate_limit"
    THEN (IF r < maxRetries THEN "continue" ELSE "break")
    ELSE IF errorType = "server_error" \/ errorType = "network"
    THEN (IF r < maxRetries THEN "continue" ELSE "break")
    ELSE IF errorType = "timeout"
    THEN (IF r < maxRetries THEN "continue" ELSE "break")
    ELSE (IF r + 1 <= maxRetries THEN "continue" ELSE "break")

\* line 2261: lastError = fmt.Errorf("provider %s: %w", providerName, ...)
ProviderError(name, err, response) ==
    Err(<<"provider", name, ":">> \o combineErrors(err, response))

\* variant: line 2285 returns lastError as it is
AllFailed_bare(last) == last

\* line 2285: fmt.Errorf("all providers failed. Last error: %w", lastError)
AllFailed(last) ==
    Err(<<"all", "providers", "failed.", "Last", "error:">>
        \o (IF last.nil THEN <<"%!w(<nil>)">> ELSE last.text))

\* makeRequestWithFallback returns: its locals are gone (orderedProviders
\* is kept as history of the list the request ranged over)
Returned ==
    /\ idx' = 0
    /\ retry' = 0
    /\ attemptedProviders' = {}
    /\ config' = ZeroConfig
    /\ lastError' = NilError

\* one pass of the range loop that does not reach the retry loop
SkipProvider ==
    /\ pc = "select"
    /\ idx <= Len(orderedProviders)
    /\ LET name == orderedProviders[idx] IN
         /\ \/ Skipped(name)
            \/ ~(0 <= ConfigOf(name).MaxRetries)
         /\ attemptedProviders' = attemptedProviders \cup {name}
    /\ idx' = idx + 1
    /\ UNCHANGED <<providerConfig, providers, streamingEnabled, pc, requested,
                   orderedProviders, retry, config, lastError, result, reported>>
    /\ UNCHANGED historyVars
    /\ UNCHANGED otherVars

\* the range loop reaches line 2247 for this provider
BeginProvider ==
    /\ pc = "select"
    /\ idx <= Len(orderedProviders)
    /\ LET name == orderedProviders[idx] IN
         /\ ~Skipped(name)
         /\ 0 <= ConfigOf(name).MaxRetries
         /\ attemptedProviders' = attemptedProviders \cup {name}
         /\ config' = ConfigOf(name)
    /\ retry' = 0
    /\ pc' = "attempt"
    /\ UNCHANGED <<providerConfig, providers, streamingEnabled, requested,
                   orderedProviders, idx, lastError, result, reported>>
    /\ UNCHANGED historyVars
    /\ UNCHANGED otherVars

\* lines 2247-2282: one turn of the retry loop; o is what the provider
\* answers to this attempt
TryProvider(o) ==
    /\ pc = "attempt"
    /\ LET name == orderedProviders[idx]
           rr == makeRequest(Lookup(name).Name, o)
           response == rr[1]
           err == rr[2]
       IN
         IF IsSuccess(response, err)
         THEN /\ result' = [response |-> response, provider |-> name, err |-> NilError]
              /\ pc' = "done"
              /\ Record(name, retry, o)
              /\ Returned
         ELSE LET errorType == classifyError(err, response) IN
              /\ lastError' = ProviderError(name, err, response)
              /\ Record(name, retry, o)
              /\ IF RetryDecision(errorType, retry, config.MaxRetries) = "continue"
                 THEN /\ retry' = retry + 1
                      /\ UNCHANGED <<idx, pc, config>>
                 ELSE /\ idx' = idx + 1
                      /\ pc' = "select"
                      /\ config' = ZeroConfig
                      /\ UNCHANGED retry
              /\ UNCHANGED <<result, attemptedProviders>>
    /\ streamPhase' = streamPhase
    /\ UNCHANGED <<providerConfig, providers, streamingEnabled, requested,
                   orderedProviders, reported>>
    /\ UNCHANGED otherVars

\* line 2285: the range loop is over
Exhausted ==
    /\ pc = "select"
    /\ idx > Len(orderedProviders)
    /\ result' = [response |-> NilResponse, provider |-> "", err |-> AllFailed(lastError)]
    /\ pc' = "done"
    /\ Returned
    /\ UNCHANGED <<providerConfig, providers, streamingEnabled, requested,
                   orderedProviders, reported>>
    /\ UNCHANGED historyVars
    /\ UNCHANGED otherVars

\* the command is over and its process ends
ProcessExit ==
    /\ pc = "reported"
    /\ NoRequest
    /\ UNCHANGED providerConfig

\* ------------------------------------------------------------ specification
Next ==
    \/ \E n \in Names, b \in BOOLEAN : toggleProvider(n, b)
    \/ \E n \in Names, k \in 0..MaxPriority : setProviderPriority(n, k)
    \/ \E n \in Names, env \in Environments : ChatExit(n, env)
    \/ \E n \in Names, env \in Environments, ph \in {"none", "connect", "midstream"} :
          ChatStreaming(n, env, ph)
    \/ \E n \in Names, env \in Environments : ChatFallback(n, env)
    \/ \E n \in Names, env \in Environments, o \in Outcomes : ChatDirect(n, env, o)
    \/ ChatReturn
    \/ ProcessExit
    \/ SkipProvider
    \/ BeginProvider
    \/ \E o \in Outcomes : TryProvider(o)
    \/ Exhausted

Spec == Init /\ [][Next]_vars

\* makeRequestWithFallback is straight-line sequential code: once called it
\* keeps running, every network call ends (the http.Client has a 120 s
\* timeout) and every sleep ends.
DispatchStep ==
    \/ SkipProvider
    \/ BeginProvider
    \/ \E o \in Outcomes : TryProvider(o)
    \/ Exhausted

FairSpec == Spec /\ WF_vars(DispatchStep)


\* ------------------------------------------------------- reading the history
IsAttempt(e) == e.op = "attempt"
IsSleep(e) == e.op = "sleep"
Attempts == SelectSeq(trace, IsAttempt)
Sleeps == SelectSeq(trace, IsSleep)

AttemptsIn(tr, name) ==
    Cardinality({ i \in 1..Len(tr) : IsAttempt(tr[i]) /\ tr[i].provider = name })
AttemptsOn(name) == AttemptsIn(trace, name)

\* a chat command that went through makeRequestWithFallback
InFallback ==
    /\ pc \in {"select", "attempt", "done", "reported"}
    /\ reported # "exit"
    /\ ~streamingEnabled
    /\ providerConfig.FallbackEnabled

InFlight == InFallback /\ pc \in {"select", "attempt"}
Over == InFallback /\ pc \in {"done", "reported"}

Priority(name) == providerConfig.Providers[name].Priority
MaxRetries(name) == providerConfig.Providers[name].MaxRetries

Eligible(name) ==
    /\ name \in DOMAIN providerConfig.Providers
    /\ providerConfig.Providers[name].Enabled
    /\ Lookup(name).APIKey # ""

Position(name) == CHOOSE i \in 1..Len(orderedProviders) : orderedProviders[i] = name

\* the answer is an HTTP response whose body carries no error envelope, or
\* one with an empty message
AnswerSucceeds(o) ==
    /\ o.kind = "http"
    /\ \/ ~o.body.valid
       \/ ~o.body.Error.present
       \/ o.body.Error.Message = <<>>

\* ---------------------------------------------------------------------- C1
\* C1: within one makeRequestWithFallback the attempts follow the resolved
\* list: priority numbers never decrease along the attempts, the attempts
\* on one provider are consecutive, and a provider that was left is never
\* attempted again.
C1_AttemptsFollowOrder ==
    InFallback =>
      \A i, j \in 1..Len(Attempts) :
        i < j =>
          /\ Priority(Attempts[i].provider) <= Priority(Attempts[j].provider)
          /\ Position(Attempts[i].provider) <= Position(Attempts[j].provider)
          /\ Attempts[i].provider = Attempts[j].provider =>
               \A k \in i..j : Attempts[k].provider = Attempts[i].provider

C1_Witness ==
    /\ Over
    /\ Len(Attempts) >= 4
    /\ \E i \in 1..Len(Attempts) : Attempts[i].retry > 0
    /\ Cardinality({ Attempts[i].provider : i \in 1..Len(Attempts) }) >= 2
    /\ \E a, b \in Names : Priority(a) = Priority(b) /\ a # b

\* ---------------------------------------------------------------------- C3
\* C3: the first attempt without transport error whose response has no
\* error envelope, or one with an empty message, ends the request: that
\* response and that provider's name come back with a nil error, and no
\* attempt follows it (a request still running has had only failures).
C3_FirstSuccessReturns ==
    InFallback /\ trace # <<>> =>
      /\ pc \in {"select", "attempt"} => ~AnswerSucceeds(answer)
      /\ pc \in {"done", "reported"} /\ AnswerSucceeds(answer) =>
           /\ result.err.nil
           /\ result.provider = Attempts[Len(Attempts)].provider
           /\ result.response = Unmarshal(answer.body)

C3_Witness ==
    /\ Over
    /\ Len(Attempts) = 1
    /\ answer.kind = "http" /\ answer.body.valid
    /\ answer.body.Error.present /\ answer.body.Error.Message = <<>>
    /\ result.err.nil
    /\ Len(orderedProviders) >= 3
    /\ Lookup(orderedProviders[1]).APIKey = ""
    /\ Attempts[1].provider = orderedProviders[2]
    /\ Eligible(orderedProviders[3])

\* ---------------------------------------------------------------------- C4
\* C4: only enabled providers with a credential are attempted or waited
\* for; a disabled provider or one without credential gets no attempt and
\* no delay, and the first attempt goes to the first eligible provider in
\* priority order.
C4_OnlyEligibleAttempted ==
    InFallback =>
      /\ \A i \in 1..Len(trace) : Eligible(trace[i].provider)
      /\ trace # <<>> =>
           /\ IsAttempt(trace[1])
           /\ \A n \in DOMAIN providerConfig.Providers :
                Eligible(n) => Priority(trace[1].provider) <= Priority(n)
           /\ \A k \in 1..(Position(trace[1].provider) - 1) :
                ~Eligible(orderedProviders[k])

C4_Witness ==
    /\ Over
    /\ trace # <<>>
    /\ Len(orderedProviders) = 2
    /\ Lookup(orderedProviders[1]).APIKey = ""
    /\ trace[1].provider = orderedProviders[2]
    /\ \E n \in Names :
         /\ ~providerConfig.Providers[n].Enabled
         /\ Lookup(n).APIKey # ""
         /\ Priority(n) < Priority(trace[1].provider)
    /\ Len(Attempts) = MaxRetries(orderedProviders[2]) + 1
    /\ Len(Sleeps) = MaxRetries(orderedProviders[2])
    /\ MaxRetries(orderedProviders[2]) > 0

\* ---------------------------------------------------------------------- C2
Retryable == {"rate_limit", "server_error", "network", "timeout"}

\* the category the code gives the answer o of provider name
AnswerCategory(name, o) ==
    LET rr == makeRequest(name, o) IN classifyError(rr[2], rr[1])

\* One network attempt of makeRequestWithFallback on the provider it is
\* working on.
AttemptStep == InFallback /\ pc = "attempt" /\ trace' # trace

\* C2: an attempt on P that fails with rate_limit, server_error, network or
\* timeout is followed by another attempt on P while P has had fewer than
\* maxRetries(P)+1 attempts; the one that makes it maxRetries(P)+1 sends
\* the request on to the next provider of the list, and a success of that
\* provider's first attempt returns its response and name with a nil error.
C2_Step ==
    AttemptStep =>
      LET name == orderedProviders[idx] IN
        /\ ~AnswerSucceeds(answer') /\ AnswerCategory(name, answer') \in Retryable =>
             IF retry < MaxRetries(name)
             THEN /\ pc' = "attempt" /\ idx' = idx /\ retry' = retry + 1
                  /\ AttemptsIn(trace', name) = retry + 1
             ELSE /\ pc' = "select" /\ idx' = idx + 1
                  /\ AttemptsIn(trace', name) = MaxRetries(name) + 1
        /\ /\ retry = 0 /\ Len(Attempts) > 0
           /\ AnswerCategory(Attempts[Len(Attempts)].provider, answer) \in Retryable
           /\ AnswerSucceeds(answer')
           =>
             /\ pc' = "done"
             /\ result' = [response |-> makeRequest(name, answer')[1],
                           provider |-> name, err |-> NilError]
             /\ AttemptsOn(Attempts[Len(Attempts)].provider)
                  = MaxRetries(Attempts[Len(Attempts)].provider) + 1

C2_RetriesThenNextProvider == [][C2_Step]_vars

C2_Witness ==
    /\ InFlight
    /\ pc = "attempt"
    /\ idx = 2
    /\ retry = 0
    /\ MaxRetries(orderedProviders[1]) = 2
    /\ AttemptsOn(orderedProviders[1]) = 3
    /\ Len(Attempts) = 3
    /\ AnswerCategory(orderedProviders[1], answer) = "rate_limit"

\* ---------------------------------------------------------------------- C5
RECURSIVE SumBudget(_)
SumBudget(S) ==
    IF S = {} THEN 0
    ELSE LET n == CHOOSE x \in S : TRUE IN
         (MaxRetries(n) + 1) + SumBudget(S \ {n})

EligibleNames == { n \in DOMAIN providerConfig.Providers : Eligible(n) }

Succeeded == result.err.nil /\ ~result.response.nil
ExhaustedResult ==
    /\ result.response.nil
    /\ ~result.err.nil
    /\ Contains(result.err.text, <<"all", "providers", "failed.">>)

C5_Bound ==
    InFallback =>
      /\ Len(Attempts) <= SumBudget(EligibleNames)
      /\ pc \in {"done", "reported"} => (Succeeded \/ ExhaustedResult)

\* C5: a request through makeRequestWithFallback ends, with Success or
\* Exhausted, after at most the sum of maxRetries+1 over the eligible
\* providers attempts.
C5_TerminatesWithinBudget == []C5_Bound /\ (InFlight ~> Over)

C5_Witness ==
    /\ Over
    /\ ExhaustedResult
    /\ Cardinality(EligibleNames) >= 2
    /\ Len(Attempts) = SumBudget(EligibleNames)
    /\ Len(Attempts) >= 4

\* ---------------------------------------------------------------------- C6
\* the error text of a failed attempt: the transport error's text, or the
\* message of the error envelope
AnswerErrorText(o) ==
    IF o.kind = "http" THEN o.body.Error.Message ELSE o.text

\* C6: when the request ends Exhausted after at least one attempt, the
\* returned error names the provider of the last attempt and contains the
\* error text of that last attempt.
C6_ExhaustedNamesLastError ==
    Over /\ ExhaustedResult /\ Len(Attempts) >= 1 =>
      /\ Contains(result.err.text, <<Attempts[Len(Attempts)].provider>>)
      /\ Contains(result.err.text, AnswerErrorText(answer))

\* ---------------------------------------------------------------------- C7
ReportedFailure == reported \in {"error", "api_error", "stream_error"}

\* C7: with fallback enabled a chat command reports a failure only after
\* every eligible provider has used up its retry budget, except for an
\* error that arrives mid-stream.
C7_OnlyExhaustionReported ==
    /\ pc = "reported"
    /\ providerConfig.FallbackEnabled
    /\ ReportedFailure
    /\ streamPhase # "midstream"
    => \A n \in EligibleNames : AttemptsOn(n) = MaxRetries(n) + 1

\* ---------------------------------------------------------------------- C8
\* C8: an attempt that fails because the payload cannot be serialized is
\* classified unknown and is not retried: no further attempt is made on
\* that provider.
C8_Step ==
    AttemptStep /\ answer'.kind = "marshal" =>
      /\ AnswerCategory(orderedProviders[idx], answer') = "unknown"
      /\ ~(pc' = "attempt" /\ idx' = idx)

Scenario ==
    /\ providerConfig.Providers["openrouter"] = AIProviderConfig(1, TRUE, 2)
    /\ providerConfig.Providers["gemini"].Priority = 2
    /\ providerConfig.Providers["gemini"].Enabled
    /\ Lookup("openrouter").APIKey # ""
    /\ Lookup("gemini").APIKey # ""
    /\ ~Eligible("groq")

\* C9: openrouter (priority 1, maxRetries 2) answers every attempt with
\* HTTP 429 and gemini (priority 2) answers with content: each of the
\* first two 429 answers is followed by another attempt on openrouter, the
\* third sends the request on, and gemini's first answer ends it with
\* gemini's content and a nil error after exactly 3 + 1 attempts.
C9_Step ==
    AttemptStep /\ Scenario =>
      LET name == orderedProviders[idx] IN
        /\ name = "openrouter" /\ answer'.kind = "http" /\ answer'.status = 429 =>
             IF retry < 2
             THEN pc' = "attempt" /\ idx' = idx /\ retry' = retry + 1
             ELSE pc' = "select" /\ idx' = idx + 1
        /\ /\ name = "gemini" /\ retry = 0 /\ AttemptsOn("openrouter") = 3
           /\ answer'.kind = "http" /\ answer'.body.valid
           /\ answer'.body.Choices # <<>>
           => /\ pc' = "done"
              /\ result' = [response |-> Response(answer'.body.Choices, NoError),
                            provider |-> "gemini", err |-> NilError]
              /\ AttemptsIn(trace', "openrouter") = 3
              /\ AttemptsIn(trace', "gemini") = 1

C9_Http429ThenGemini == [][C9_Step]_vars

\* --------------------------------------------------------------------- C10
\* C10: a body that is not JSON decodes to an envelope with no candidates
\* and no error, and the attempt is a success: the request ends there with
\* the empty envelope, that provider's name and a nil error; no retry and
\* no later provider follows.
C10_UnparseableBodyIsSuccess ==
    InFallback /\ trace # <<>> /\ answer.kind = "http" /\ ~answer.body.valid =>
      /\ pc \in {"done", "reported"}
      /\ result.err.nil
      /\ result.provider = Attempts[Len(Attempts)].provider
      /\ result.response = Response(<<>>, NoError)

C10_Witness ==
    /\ Over
    /\ answer.kind = "http" /\ ~answer.body.valid
    /\ Len(Attempts) >= 2
    /\ result.response = Response(<<>>, NoError)
    /\ \E n \in Names : Eligible(n) /\ AttemptsOn(n) = 0

\* ------------------------------------------- the provider commands alone
\* "provider add": the name may be a stock one, whose entry is then
\* replaced.  The priority is what the user typed, 1 when it is no number.
\* The entry put into the providers map is gone with the process.
CustomNames == {"custom"}
AddPriorities == (0..MaxPriority) \cup {1}

addProvider(providerName, priority) ==
    /\ pc = "idle"
    /\ providerConfig' =
         [providerConfig EXCEPT !.Providers =
            [n \in (DOMAIN providerConfig.Providers) \cup {providerName} |->
               IF n = providerName
               THEN AIProviderConfig(priority, TRUE, DefaultMaxRetries)
               ELSE providerConfig.Providers[n]]]
    /\ NoRequest

\* "provider list": prints the providers getOrderedProviders returns
listProviders ==
    /\ pc = "idle"
    /\ orderedProviders' \in getOrderedProviders(providerConfig)
    /\ prevOrdered' = [called |-> TRUE, Providers |-> providerConfig.Providers,
                       list |-> orderedProviders']
    /\ reported' = "listed"
    /\ pc' = "reported"
    /\ UNCHANGED <<providerConfig, providers, streamingEnabled, requested,
                   idx, retry, attemptedProviders, config, lastError, result>>
    /\ UNCHANGED historyVars
    /\ UNCHANGED <<classifyVars, byokVars, streamVars, replayVars, webVars,
                   securityVars, sessionVars>>

ConfigNext ==
    \/ \E n \in Names \cup CustomNames, b \in BOOLEAN : toggleProvider(n, b)
    \/ \E n \in Names \cup CustomNames, k \in 0..MaxPriority : setProviderPriority(n, k)
    \/ \E n \in Names \cup CustomNames, k \in AddPriorities : addProvider(n, k)
    \/ listProviders
    \/ ProcessExit

ConfigSpec == StockInit /\ [][ConfigNext]_vars

\* --------------------------------------------------------------------- C13
\* C13: getOrderedProviders returns exactly the names whose enabled flag is
\* true in the current configuration, each once, in non-decreasing order
\* of priority number; whatever enable, disable, set-priority and
\* add-provider commands came before, no disabled provider is in it.
C13_EnabledByPriority ==
    reported = "listed" =>
      /\ \A n \in DOMAIN providerConfig.Providers :
            providerConfig.Providers[n].Enabled
              <=> Cardinality({ i \in 1..Len(orderedProviders) :
                                  orderedProviders[i] = n }) = 1
      /\ \A i \in 1..Len(orderedProviders) :
            /\ orderedProviders[i] \in DOMAIN providerConfig.Providers
            /\ providerConfig.Providers[orderedProviders[i]].Enabled
      /\ \A i, j \in 1..Len(orderedProviders) :
            i < j => Priority(orderedProviders[i]) <= Priority(orderedProviders[j])

C13_Witness ==
    /\ reported = "listed"
    /\ "custom" \in DOMAIN providerConfig.Providers
    /\ ~providerConfig.Providers["gemini"].Enabled
    /\ Len(orderedProviders) = 3
    /\ orderedProviders[1] = "groq"
    /\ Priority("custom") = Priority("openrouter")

\* -------------------------------------------------------- streaming decode
\* A response body is a sequence of byte groups: the data marker, one JSON
\* payload, the sentinel, a comment, carriage return, newline.
Whitespace == {" ", "\r", "\n"}

RECURSIVE TrimLeft(_)
TrimLeft(line) ==
    IF line # <<>> /\ Head(line) \in Whitespace THEN TrimLeft(Tail(line)) ELSE line

RECURSIVE TrimRight(_)
TrimRight(line) ==
    IF line # <<>> /\ line[Len(line)] \in Whitespace
    THEN TrimRight(SubSeq(line, 1, Len(line) - 1))
    ELSE line

\* strings.TrimSpace; the marker "data: " at the very end loses its blank
TrimSpace(line) ==
    LET t == TrimRight(TrimLeft(line)) IN
      IF t # <<>> /\ t[Len(t)] = "data: "
      THEN [t EXCEPT ![Len(t)] = "data:"]
      ELSE t

\* strings.HasPrefix(line, "data: ")
HasPrefix(line) == line # <<>> /\ line[1] = "data: "

Sentinel == <<"[DONE]">>

StreamingResponse(choices, error) == [Choices |-> choices, Error |-> error]

MsgOverloaded == <<"overloaded">>

\* the JSON payloads of the model and what they decode to: a delta with
\* content a, with content b, with empty content, and an error envelope
\* that comes with a delta
JsonObjects ==
    [tok \in {"{a}", "{b}", "{}", "{err,c}"} |->
       IF tok = "{a}" THEN StreamingResponse(<<"a">>, NoError)
       ELSE IF tok = "{b}" THEN StreamingResponse(<<"b">>, NoError)
       ELSE IF tok = "{}" THEN StreamingResponse(<<"">>, NoError)
       ELSE StreamingResponse(<<"c">>, APIError(MsgOverloaded, TypeServer))]

\* json.Unmarshal([]byte(data), &streamResp): exactly one JSON value
ParseData(data) ==
    IF Len(data) = 1 /\ data[1] \in DOMAIN JsonObjects
    THEN [ok |-> TRUE, value |-> JsonObjects[data[1]]]
    ELSE [ok |-> FALSE, value |-> StreamingResponse(<<>>, NoError)]

LineResult(kind, content, err) == [kind |-> kind, content |-> content, err |-> err]

\* variant: the sentinel is taken for one more unparseable line
ProcessLine_noSentinel(rawLine) ==
    LET line == TrimSpace(rawLine) IN
      IF line = <<>> THEN LineResult("continue", "", NilError)
      ELSE IF ~HasPrefix(line) THEN LineResult("continue", "", NilError)
      ELSE LET parsed == ParseData(Tail(line)) IN
          IF ~parsed.ok THEN LineResult("continue", "", NilError)
          ELSE IF parsed.value.Error.present
          THEN LineResult("return", "",
                          Err(<<"API Error:">> \o parsed.value.Error.Message))
          ELSE IF Len(parsed.value.Choices) > 0 /\ parsed.value.Choices[1] # ""
          THEN LineResult("print", parsed.value.Choices[1], NilError)
          ELSE LineResult("continue", "", NilError)

\* variant: a data line that does not parse ends the stream with an error
ProcessLine_strict(rawLine) ==
    LET line == TrimSpace(rawLine) IN
      IF line = <<>> THEN LineResult("continue", "", NilError)
      ELSE IF ~HasPrefix(line) THEN LineResult("continue", "", NilError)
      ELSE LET data == Tail(line) IN
        IF data = Sentinel THEN LineResult("break", "", NilError)
        ELSE LET parsed == ParseData(data) IN
          IF ~parsed.ok THEN LineResult("return", "", Err(<<"invalid", "character">>))
          ELSE IF parsed.value.Error.present
          THEN LineResult("return", "",
                          Err(<<"API Error:">> \o parsed.value.Error.Message))
          ELSE IF Len(parsed.value.Choices) > 0 /\ parsed.value.Choices[1] # ""
          THEN LineResult("print", parsed.value.Choices[1], NilError)
          ELSE LineResult("continue", "", NilError)

\* the body of the read loop for one line ReadString returned: "continue"
\* goes to the next line, "break" leaves the loop, "return" returns err,
\* "print" writes content and goes to the next line
ProcessLine(rawLine) ==
    LET line == TrimSpace(rawLine) IN
      IF line = <<>> THEN LineResult("continue", "", NilError)
      ELSE IF ~HasPrefix(line) THEN LineResult("continue", "", NilError)
      ELSE LET data == Tail(line) IN
        IF data = Sentinel THEN LineResult("break", "", NilError)
        ELSE LET parsed == ParseData(data) IN
          IF ~parsed.ok THEN LineResult("continue", "", NilError)
          ELSE IF parsed.value.Error.present
          THEN LineResult("return", "",
                          Err(<<"API Error:">> \o parsed.value.Error.Message))
          ELSE IF Len(parsed.value.Choices) > 0 /\ parsed.value.Choices[1] # ""
          THEN LineResult("print", parsed.value.Choices[1], NilError)
          ELSE LineResult("continue", "", NilError)

HasNewline(buf) == \E i \in 1..Len(buf) : buf[i] = "\n"

FirstNewline(buf) ==
    CHOOSE i \in 1..Len(buf) :
        buf[i] = "\n" /\ \A j \in 1..(i - 1) : buf[j] # "\n"

\* variant: ReadString hands out whatever one read delivered
BufferedLine_perRead(buf) == buf

\* what ReadString('\n') finds in the buffer: the bytes up to and with the
\* first newline, nothing when there is no newline yet
BufferedLine(buf) ==
    IF HasNewline(buf) THEN SubSeq(buf, 1, FirstNewline(buf)) ELSE <<>>

AfterLine(buf, line) == SubSeq(buf, Len(line) + 1, Len(buf))

TxtReadErr == <<"unexpected", "EOF">>

\* the lines a provider sends
DataLine(payload) == <<"data: ", payload, "\n">>

StreamLines ==
    { DataLine("{a}"), DataLine("{b}"), DataLine("{}"), DataLine("{err,c}"),
      DataLine("[DONE]"), DataLine("junk"), <<":", "\n">>, <<"\r", "\n">> }

RECURSIVE Flatten(_)
Flatten(ls) == IF ls = <<>> THEN <<>> ELSE Head(ls) \o Flatten(Tail(ls))

\* a last line the body ends in the middle of, before its newline
Unterminated == { SubSeq(l, 1, k) : l \in StreamLines, k \in 0..2 } \ StreamLines

\* the body is read to its end (io.EOF), or reading fails on the way
StreamBodies ==
    { [bytes |-> Flatten(ls) \o u, end |-> e] :
        ls \in UNION { [1..k -> StreamLines] : k \in 0..MaxLines },
        u \in Unterminated, e \in {"eof", "error"} }

StreamEnvironments ==
    { env \in Environments : env.streaming /\ \A n \in Names : env.keys[n] = "key" }

\* variant: a failed stream is tried once more
AfterStreamError_retry == "retry"

\* what follows a failed streaming request in sessionWithHistory and
\* chatWithAI: the error is printed and the command returns
AfterStreamError == "return"

StreamFrame ==
    /\ UNCHANGED <<providerConfig, providers, streamingEnabled, requested,
                   result, reported, classified, byokConfig, reqBody,
                   streamBody, answer>>
    /\ UNCHANGED dispatchVars
    /\ UNCHANGED laterVars

\* sessionWithHistory lines 1923-1932 into makeStreamingRequestWithCapture
\* up to client.Do: the provider answers and the body starts to arrive
StreamOpen(providerName, env) ==
    /\ pc = "idle"
    /\ StartProcess(env)
    /\ env.streaming
    /\ env.keys[providerName] # ""
    /\ requested' = providerName
    /\ trace' = <<Attempt(providerName, 0)>>
    /\ respBody' = streamBody
    /\ reader' = <<>>
    /\ stdout' = <<>>
    /\ capturedContent' = <<>>
    /\ capture' = <<>>
    /\ streamErr' = NilError
    /\ streamPhase' = "none"
    /\ answer' = NoAnswer
    /\ pc' = "stream"
    /\ result' = NoResult
    /\ reported' = "none"
    /\ FreshDispatch
    /\ UNCHANGED <<providerConfig, classified, byokConfig, reqBody, streamBody>>
    /\ UNCHANGED laterVars

\* client.Do fails: the request returns its error before any line is read
StreamConnectError(providerName, env) ==
    /\ pc = "idle"
    /\ StartProcess(env)
    /\ env.streaming
    /\ env.keys[providerName] # ""
    /\ requested' = providerName
    /\ trace' = <<Attempt(providerName, 0)>>
    /\ streamErr' = Err(TxtConn)
    /\ streamPhase' = "connect"
    /\ answer' = NoAnswer
    /\ pc' = "streamed"
    /\ result' = NoResult
    /\ reported' = "none"
    /\ FreshDispatch
    /\ UNCHANGED <<providerConfig, classified, byokConfig, reqBody, respBody,
                   reader, stdout, capturedContent, capture, streamBody>>
    /\ UNCHANGED laterVars

\* ReadString finds no newline in its buffer and reads on: the next k
\* bytes of the body arrive
Fill(k) ==
    /\ pc = "stream"
    /\ BufferedLine(reader) = <<>>
    /\ k \in 1..Len(respBody.bytes)
    /\ reader' = reader \o SubSeq(respBody.bytes, 1, k)
    /\ respBody' = [respBody EXCEPT
                      !.bytes = SubSeq(respBody.bytes, k + 1, Len(respBody.bytes))]
    /\ UNCHANGED <<pc, trace, stdout, capturedContent, capture, streamErr,
                   streamPhase>>
    /\ StreamFrame

\* a streaming request has failed after the response began
StreamFailed(err) ==
    /\ streamErr' = err
    /\ streamPhase' = "midstream"
    /\ IF AfterStreamError = "return"
       THEN pc' = "streamed" /\ UNCHANGED trace
       ELSE pc' = "streamed" /\ trace' = trace \o <<Attempt(requested, 1)>>

\* one turn of the read loop with a line in hand
ReadLine ==
    /\ pc = "stream"
    /\ BufferedLine(reader) # <<>>
    /\ \E line \in {BufferedLine(reader)} : \E r \in {ProcessLine(line)} :
          /\ reader' = AfterLine(reader, line)
          /\ IF r.kind = "return"
             THEN /\ StreamFailed(r.err)
                  /\ UNCHANGED <<stdout, capturedContent, capture>>
             ELSE IF r.kind = "break"
             THEN /\ capture' = capturedContent
                  /\ pc' = "streamed"
                  /\ UNCHANGED <<stdout, capturedContent, streamErr, streamPhase, trace>>
             ELSE IF r.kind = "print"
             THEN /\ stdout' = Append(stdout, r.content)
                  /\ capturedContent' = Append(capturedContent, r.content)
                  /\ UNCHANGED <<pc, capture, streamErr, streamPhase, trace>>
             ELSE UNCHANGED <<pc, stdout, capturedContent, capture, streamErr,
                              streamPhase, trace>>
    /\ UNCHANGED respBody
    /\ StreamFrame

\* ReadString returns an error: io.EOF leaves the loop and whatever came
\* after the last newline is dropped; any other error is returned
ReadEnd ==
    /\ pc = "stream"
    /\ BufferedLine(reader) = <<>>
    /\ respBody.bytes = <<>>
    /\ IF respBody.end = "eof"
       THEN /\ capture' = capturedContent
            /\ pc' = "streamed"
            /\ UNCHANGED <<streamErr, streamPhase, trace>>
       ELSE /\ StreamFailed(Err(TxtReadErr))
            /\ UNCHANGED capture
    /\ UNCHANGED <<respBody, reader, stdout, capturedContent>>
    /\ StreamFrame

\* sessionWithHistory lines 1934-1937: the error is printed, or the
\* command goes on with the captured text
StreamReturn ==
    /\ pc = "streamed"
    /\ reported' = IF streamErr.nil THEN "ok" ELSE "stream_error"
    /\ pc' = "reported"
    /\ UNCHANGED <<providerConfig, providers, streamingEnabled, requested, result>>
    /\ UNCHANGED dispatchVars
    /\ UNCHANGED historyVars
    /\ UNCHANGED otherVars

\* the steps of a request that is under way
StreamStep ==
    \/ \E k \in 1..(3 * MaxLines + 2) : Fill(k)
    \/ ReadLine
    \/ ReadEnd
    \/ StreamReturn

StreamNext ==
    \/ \E n \in Names, env \in StreamEnvironments : StreamOpen(n, env)
    \/ \E n \in Names, env \in StreamEnvironments : StreamConnectError(n, env)
    \/ \E k \in 1..(3 * MaxLines + 2) : Fill(k)
    \/ ReadLine
    \/ ReadEnd
    \/ StreamReturn

\* streamBody is what the provider is going to send to the request of
\* this run, and how the body ends
StreamInit ==
    /\ ProgramInit
    /\ providerConfig.FallbackEnabled
    /\ \A n \in Names : providerConfig.Providers[n].MaxRetries = DefaultMaxRetries
    /\ QuietInit
    /\ streamBody \in StreamBodies
    /\ script = <<>>
    /\ chatHistory = NoHistory /\ requests = <<>> /\ tick = 0

StreamSpec == StreamInit /\ [][StreamNext]_vars

\* the read loop run over a whole body that is there at once
RECURSIVE DecodeAll(_, _, _)
DecodeAll(bytes, end, out) ==
    LET line == BufferedLine(bytes) IN
      IF line = <<>>
      THEN IF end = "eof"
           THEN [err |-> NilError, out |-> out, capture |-> out]
           ELSE [err |-> Err(TxtReadErr), out |-> out, capture |-> <<>>]
      ELSE LET r == ProcessLine(line) IN
           IF r.kind = "return" THEN [err |-> r.err, out |-> out, capture |-> <<>>]
           ELSE IF r.kind = "break" THEN [err |-> NilError, out |-> out, capture |-> out]
           ELSE IF r.kind = "print"
           THEN DecodeAll(AfterLine(bytes, line), end, Append(out, r.content))
           ELSE DecodeAll(AfterLine(bytes, line), end, out)

StreamOver == pc \in {"streamed", "reported"} /\ streamPhase # "connect"
StreamOutcome == [err |-> streamErr, out |-> stdout, capture |-> capture]

\* ------------------------------------------------- OpenRouter BYOK payload
BYOKNames == {"Cerebras", "SambaNova"}
ModelSlugs == {"cerebras/llama-3.1-8b", "sambanova/llama-3.2"}

\* normalizeProviderKeyCLI on the names of the model: lower case
normalizeProviderKeyCLI(name) ==
    IF name = "Cerebras" THEN "cerebras"
    ELSE IF name = "SambaNova" THEN "sambanova"
    ELSE name

OpenRouterBYOKConfig(enabled, providerOrder, allowFallbackToShared, models) ==
    [nil |-> FALSE, Enabled |-> enabled, ProviderOrder |-> providerOrder,
     AllowFallbackToShared |-> allowFallbackToShared, Models |-> models]

InOrder(order, name) == \E i \in 1..Len(order) : order[i] = name

\* a BYOK command is one process run; it leaves the saved configuration
BYOKFrame ==
    /\ pc = "idle"
    /\ reqBody' = NoPayload
    /\ UNCHANGED <<providerConfig, providers, streamingEnabled, pc, requested,
                   result, reported>>
    /\ UNCHANGED dispatchVars
    /\ UNCHANGED historyVars
    /\ UNCHANGED <<classifyVars, streamVars, laterVars>>

toggleBYOKMode(enabled) ==
    /\ "openrouter" \in DOMAIN providerConfig.Providers
    /\ byokConfig' =
         IF byokConfig.nil
         THEN OpenRouterBYOKConfig(enabled, <<>>, TRUE, <<>>)
         ELSE [byokConfig EXCEPT !.Enabled = enabled]
    /\ BYOKFrame

addBYOKProviderCLI(providerName, model) ==
    /\ "openrouter" \in DOMAIN providerConfig.Providers
    /\ ~byokConfig.nil
    /\ ~InOrder(byokConfig.ProviderOrder, providerName)
    /\ byokConfig' =
         [byokConfig EXCEPT
            !.ProviderOrder = Append(byokConfig.ProviderOrder, providerName),
            !.Models = [k \in DOMAIN byokConfig.Models
                              \cup {normalizeProviderKeyCLI(providerName)} |->
                          IF k = normalizeProviderKeyCLI(providerName) THEN model
                          ELSE byokConfig.Models[k]]]
    /\ BYOKFrame

removeBYOKProviderCLI(providerName) ==
    /\ "openrouter" \in DOMAIN providerConfig.Providers
    /\ ~byokConfig.nil
    /\ InOrder(byokConfig.ProviderOrder, providerName)
    /\ byokConfig' =
         [byokConfig EXCEPT
            !.ProviderOrder =
               SelectSeq(byokConfig.ProviderOrder,
                         LAMBDA p : p # providerName),
            !.Models = [k \in DOMAIN byokConfig.Models
                              \ {normalizeProviderKeyCLI(providerName)} |->
                          byokConfig.Models[k]]]
    /\ BYOKFrame

\* the new order may repeat a name or leave one out: only names that are
\* not in the present order are refused
setBYOKProviderOrder(newOrder) ==
    /\ "openrouter" \in DOMAIN providerConfig.Providers
    /\ ~byokConfig.nil
    /\ \A i \in 1..Len(newOrder) : InOrder(byokConfig.ProviderOrder, newOrder[i])
    /\ byokConfig' = [byokConfig EXCEPT !.ProviderOrder = newOrder]
    /\ BYOKFrame

toggleBYOKFallback(enabled) ==
    /\ "openrouter" \in DOMAIN providerConfig.Providers
    /\ ~byokConfig.nil
    /\ byokConfig' = [byokConfig EXCEPT !.AllowFallbackToShared = enabled]
    /\ BYOKFrame

setBYOKModel(providerName, model) ==
    /\ "openrouter" \in DOMAIN providerConfig.Providers
    /\ ~byokConfig.nil
    /\ InOrder(byokConfig.ProviderOrder, providerName)
    /\ byokConfig' =
         [byokConfig EXCEPT
            !.Models = [k \in DOMAIN byokConfig.Models
                              \cup {normalizeProviderKeyCLI(providerName)} |->
                          IF k = normalizeProviderKeyCLI(providerName) THEN model
                          ELSE byokConfig.Models[k]]]
    /\ BYOKFrame

\* a chat request as its caller built it
Request(model, messages, stream) ==
    [Model |-> model, Messages |-> messages, Stream |-> stream]

Requests ==
    { Request(m, <<"hello">>, st) :
        m \in {"openrouter/auto"} \cup ModelSlugs, st \in BOOLEAN }

\* json.Marshal(req): "stream" has omitempty
MarshalRequest(req) ==
    IF req.Stream
    THEN [model |-> req.Model, messages |-> req.Messages, stream |-> TRUE]
    ELSE [model |-> req.Model, messages |-> req.Messages]

\* json.Marshal(openRouterReq) with a Provider that is not nil
MarshalOpenRouterRequest(req, allowFallbacks, order) ==
    IF req.Stream
    THEN [model |-> req.Model, messages |-> req.Messages, stream |-> TRUE,
          provider |-> [allow_fallbacks |-> allowFallbacks, order |-> order]]
    ELSE [model |-> req.Model, messages |-> req.Messages,
          provider |-> [allow_fallbacks |-> allowFallbacks, order |-> order]]

\* variant: the model comes from the Models map of the first BYOK provider
BuildRequestBody_byokModel(provider, req, byok) ==
    IF provider = "openrouter" /\ ~byok.nil /\ byok.Enabled
    THEN MarshalOpenRouterRequest(
           IF byok.ProviderOrder # <<>>
              /\ normalizeProviderKeyCLI(byok.ProviderOrder[1]) \in DOMAIN byok.Models
           THEN [req EXCEPT !.Model =
                   byok.Models[normalizeProviderKeyCLI(byok.ProviderOrder[1])]]
           ELSE req,
           byok.AllowFallbackToShared, byok.ProviderOrder)
    ELSE MarshalRequest(req)

\* variant: the Enabled flag of the BYOK configuration is not looked at
BuildRequestBody_ignoreEnabled(provider, req, byok) ==
    IF provider = "openrouter" /\ ~byok.nil
    THEN MarshalOpenRouterRequest(req, byok.AllowFallbackToShared, byok.ProviderOrder)
    ELSE MarshalRequest(req)

\* makeRequest lines 2292-2323: the payload for this provider
BuildRequestBody(provider, req, byok) ==
    IF provider = "openrouter" /\ ~byok.nil /\ byok.Enabled
    THEN MarshalOpenRouterRequest(req, byok.AllowFallbackToShared, byok.ProviderOrder)
    ELSE MarshalRequest(req)

\* a request is built for provider, with the configuration as it is
BuildRequest(provider, req) ==
    /\ pc = "idle"
    /\ reqBody = NoPayload
    /\ reqBody' = [built |-> TRUE, provider |-> provider, req |-> req,
                   json |-> BuildRequestBody(
                              provider, req,
                              IF "openrouter" \in DOMAIN providerConfig.Providers
                              THEN byokConfig ELSE NilBYOK)]
    /\ UNCHANGED <<providerConfig, providers, streamingEnabled, pc, requested,
                   result, reported, byokConfig>>
    /\ UNCHANGED dispatchVars
    /\ UNCHANGED historyVars
    /\ UNCHANGED <<classifyVars, streamVars, laterVars>>

\* strings.Split never gives an empty list: the shortest order has one name
Orders == UNION { [1..k -> BYOKNames] : k \in 1..MaxOrder }

PayloadNext ==
    \/ \E b \in BOOLEAN : toggleBYOKMode(b)
    \/ \E n \in BYOKNames, m \in ModelSlugs : addBYOKProviderCLI(n, m)
    \/ \E n \in BYOKNames : removeBYOKProviderCLI(n)
    \/ \E o \in Orders : setBYOKProviderOrder(o)
    \/ \E b \in BOOLEAN : toggleBYOKFallback(b)
    \/ \E n \in BYOKNames, m \in ModelSlugs : setBYOKModel(n, m)
    \/ \E n \in Names, req \in Requests : BuildRequest(n, req)

PayloadSpec == StockInit /\ [][PayloadNext]_vars

\* --------------------------------------------------------------------- C20
BYOKActive == ~byokConfig.nil /\ byokConfig.Enabled

\* C20: the payload built for openrouter holds the provider-routing field
\* exactly when a BYOK configuration exists and is enabled at that time;
\* the field then holds the configured ProviderOrder in its order and the
\* AllowFallbackToShared flag as they are.  For openrouter without active
\* BYOK and for every other provider the payload is model, messages and
\* stream only.  The model is the one of the caller's request, whatever
\* the BYOK Models map holds.
C20_BYOKPayload ==
    reqBody # NoPayload =>
      LET json == reqBody.json
          routed == reqBody.provider = "openrouter" /\ BYOKActive
      IN /\ "provider" \in DOMAIN json <=> routed
         /\ routed => json.provider =
                         [allow_fallbacks |-> byokConfig.AllowFallbackToShared,
                          order |-> byokConfig.ProviderOrder]
         /\ ~routed => DOMAIN json \subseteq {"model", "messages", "stream"}
         /\ json.model = reqBody.req.Model
         /\ json.messages = reqBody.req.Messages
         /\ "stream" \in DOMAIN json <=> reqBody.req.Stream

C20_Witness ==
    /\ reqBody # NoPayload
    /\ reqBody.provider = "openrouter"
    /\ BYOKActive
    /\ byokConfig.ProviderOrder = <<"SambaNova", "Cerebras">>
    /\ ~byokConfig.AllowFallbackToShared
    /\ byokConfig.Models["sambanova"] = "sambanova/llama-3.2"
    /\ reqBody.req.Model = "openrouter/auto"
    /\ reqBody.json.provider.order = <<"SambaNova", "Cerebras">>

\* ------------------------------------------------- classifyError by itself
\* Every pair of arguments classifyError can be called with: an error or
\* nil, a response or nil, the response with or without an error envelope.
Texts(words, n) == UNION { [1..k -> words] : k \in 0..n }

ErrWords == {"timeout", "deadline", "exceeded", "connection", "network", "EOF"}
MessageWords == {"rate", "limit", "429", "rate_limit", "down"}
TypeWords == {"rate_limit", "429", "server_error"}

ClassifyErrs == {NilError} \cup { Err(t) : t \in Texts(ErrWords, MaxTextLen) }

ClassifyResponses ==
    {NilResponse, Response(<<>>, NoError)}
    \cup { Response(<<>>, APIError(m, t)) :
             m \in Texts(MessageWords, MaxTextLen),
             t \in Texts(TypeWords, MaxTextLen - 1) }

\* one call of classifyError; it reads its two arguments and nothing else
ClassifyCall(err, response) ==
    /\ classified = NoCall
    /\ classified' = [fn |-> "classifyError", err |-> err, response |-> response,
                      errorType |-> classifyError(err, response)]
    /\ UNCHANGED <<providerConfig, providers, streamingEnabled, pc, requested,
                   result, reported>>
    /\ UNCHANGED dispatchVars
    /\ UNCHANGED historyVars
    /\ UNCHANGED <<byokVars, streamVars, laterVars>>

ClassifyNext ==
    \E err \in ClassifyErrs, response \in ClassifyResponses : ClassifyCall(err, response)

ClassifySpec == StockInit /\ [][ClassifyNext]_vars

\* --------------------------------------------------------------------- C11
FailureCategory == {"timeout", "network", "rate_limit", "server_error", "unknown"}

SaysTimeout(err) ==
    ~err.nil /\ (Contains(err.text, <<"timeout">>)
                 \/ Contains(err.text, <<"deadline", "exceeded">>))

SaysNetwork(err) ==
    ~err.nil /\ (Contains(err.text, <<"connection">>)
                 \/ Contains(err.text, <<"network">>))

HasEnvelope(response) == ~response.nil /\ response.Error.present

\* C11: classifyError answers every pair (transport error, envelope) with
\* exactly one of the five categories, by precedence: a transport text
\* saying timeout or "deadline exceeded" gives timeout whatever the
\* envelope holds; else a transport text saying connection or network gives
\* network; else a present error envelope gives rate_limit or
\* server_error; else unknown.  The call changes nothing but its result.
C11_ClassifyPrecedence ==
    classified.fn = "classifyError" =>
      LET err == classified.err
          response == classified.response
          t == classified.errorType
      IN /\ t \in FailureCategory
         /\ SaysTimeout(err) => t = "timeout"
         /\ ~SaysTimeout(err) /\ SaysNetwork(err) => t = "network"
         /\ ~SaysTimeout(err) /\ ~SaysNetwork(err) /\ HasEnvelope(response)
              => t \in {"rate_limit", "server_error"}
         /\ ~SaysTimeout(err) /\ ~SaysNetwork(err) /\ ~HasEnvelope(response)
              => t = "unknown"
         /\ pc = "idle" /\ trace = <<>> /\ result = NoResult

C11_Witness ==
    /\ classified.fn = "classifyError"
    /\ ~classified.err.nil
    /\ Contains(classified.err.text, <<"deadline", "exceeded">>)
    /\ HasEnvelope(classified.response)
    /\ Contains(classified.response.Error.Type, <<"rate_limit">>)
    /\ classified.errorType = "timeout"

\* --------------------------------------------------------------------- C12
\* a rate-limit marker: the rate-limit type string, the phrase "rate
\* limit", or the text "429"
HasRateLimitMarker(text) ==
    \/ Contains(text, <<"rate_limit">>)
    \/ Contains(text, <<"rate", "limit">>)
    \/ Contains(text, <<"429">>)

\* C12: with no timeout and no network rule applying and an error envelope
\* present, classifyError gives rate_limit exactly when the envelope's type
\* or its message holds a rate-limit marker, in whichever of the two
\* fields, and server_error for every other envelope.
C12_RateLimitMarkerEitherField ==
    /\ classified.fn = "classifyError"
    /\ ~SaysTimeout(classified.err)
    /\ ~SaysNetwork(classified.err)
    /\ HasEnvelope(classified.response)
    => /\ classified.errorType \in {"rate_limit", "server_error"}
       /\ classified.errorType = "rate_limit"
            <=> \/ HasRateLimitMarker(classified.response.Error.Type)
                \/ HasRateLimitMarker(classified.response.Error.Message)

\* --------------------------------------------------------------------- C14
\* reads and loop turns that are left at most
StreamDistance ==
    2 * Len(respBody.bytes) + Len(reader)
    + (IF pc = "stream" THEN 2 ELSE IF pc = "streamed" THEN 1 ELSE 0)

C14_Nearer ==
    pc \in {"stream", "streamed"} => StreamDistance' < StreamDistance

C14_SameOutcome ==
    StreamOver =>
      /\ StreamOutcome = DecodeAll(streamBody.bytes, streamBody.end, <<>>)
      /\ streamErr.nil => capture = stdout

\* C14: whatever the body and however its bytes are split into reads, the
\* streaming request ends, with the outcome the same body gives when it
\* is there at once; when it returns without error, the captured text is
\* the fragments that were printed, in the order they came.
\* The request ends: while it runs a next step is always there, and every
\* step brings it nearer to its end.
C14_SplitIndependent ==
    /\ []C14_SameOutcome
    /\ [](pc \in {"stream", "streamed"} => ENABLED StreamStep)
    /\ [][C14_Nearer]_vars

\* a read ended inside the sentinel line, after a delta was printed
C14_Witness ==
    /\ pc = "stream"
    /\ streamBody.bytes = DataLine("{a}") \o DataLine("[DONE]")
    /\ reader = <<"data: ">>
    /\ respBody.bytes = <<"[DONE]", "\n">>
    /\ stdout = <<"a">>
    /\ capturedContent = <<"a">>

\* ------------------------------------------- the lines of a streamed body
\* the body cut after every newline; what follows the last newline is the
\* last line
RECURSIVE SplitLines(_)
SplitLines(bytes) ==
    IF bytes = <<>> THEN <<>>
    ELSE IF HasNewline(bytes)
    THEN <<SubSeq(bytes, 1, FirstNewline(bytes))>>
         \o SplitLines(SubSeq(bytes, FirstNewline(bytes) + 1, Len(bytes)))
    ELSE <<bytes>>

Terminated(l) == l # <<>> /\ l[Len(l)] = "\n"

\* the lines the provider sent: when reading failed, what came after the
\* last newline is a piece of a line, not a line
BodyLines ==
    LET ls == SplitLines(streamBody.bytes) IN
      IF streamBody.end = "eof" THEN ls ELSE SelectSeq(ls, Terminated)

IsDataLine(l) == HasPrefix(TrimSpace(l))
Payload(l) == Tail(TrimSpace(l))
IsSentinelLine(l) == IsDataLine(l) /\ Payload(l) = Sentinel
IsFragmentLine(l) == IsDataLine(l) /\ ~IsSentinelLine(l) /\ ParseData(Payload(l)).ok
IsErrorLine(l) == IsFragmentLine(l) /\ ParseData(Payload(l)).value.Error.present
IsDeltaLine(l) ==
    /\ IsFragmentLine(l)
    /\ ~ParseData(Payload(l)).value.Error.present
    /\ Len(ParseData(Payload(l)).value.Choices) > 0
    /\ ParseData(Payload(l)).value.Choices[1] # ""

\* the texts of the delta lines among ls, in order
DeltaTexts(ls) ==
    LET ds == SelectSeq(ls, IsDeltaLine) IN
      [i \in 1..Len(ds) |-> ParseData(Payload(ds[i])).value.Choices[1]]

\* line k is the first line that ends the decoding: no sentinel and no
\* error envelope comes before it
FirstEnding(k) ==
    /\ k \in 1..Len(BodyLines)
    /\ IsSentinelLine(BodyLines[k]) \/ IsErrorLine(BodyLines[k])
    /\ \A j \in 1..(k - 1) :
          ~IsSentinelLine(BodyLines[j]) /\ ~IsErrorLine(BodyLines[j])

\* nothing behind line k has been handed to the loop
UnreadAfter(k) ==
    Len(reader) + Len(respBody.bytes)
      >= Len(Flatten(SubSeq(BodyLines, k + 1, Len(BodyLines))))

\* --------------------------------------------------------------------- C15
\* C15: the first data line that parses to a fragment with an error
\* envelope stops the decoder at once and that error is returned: the
\* fragments printed and accumulated are those of the lines before it,
\* nothing of that line or of a later one, and no later line is processed.
C15_ErrorLineStops ==
    StreamOver =>
      \A k \in 1..Len(BodyLines) :
        FirstEnding(k) /\ IsErrorLine(BodyLines[k]) =>
          /\ streamErr = Err(<<"API Error:">>
                             \o ParseData(Payload(BodyLines[k])).value.Error.Message)
          /\ stdout = DeltaTexts(SubSeq(BodyLines, 1, k - 1))
          /\ capturedContent = stdout
          /\ capture = <<>>
          /\ UnreadAfter(k)

\* --------------------------------------------------------------------- C16
\* C16: a data line equal to the sentinel [DONE] ends the stream with a nil
\* error; no line after it is processed, so a delta behind it is not
\* printed and an error envelope behind it is not reported.
C16_SentinelEnds ==
    StreamOver =>
      \A k \in 1..Len(BodyLines) :
        FirstEnding(k) /\ IsSentinelLine(BodyLines[k]) =>
          /\ streamErr.nil
          /\ stdout = DeltaTexts(SubSeq(BodyLines, 1, k - 1))
          /\ capture = stdout
          /\ UnreadAfter(k)
          /\ pc = "reported" => reported = "ok"

\* the sentinel came after a delta, with an error envelope behind it
C16_Witness ==
    /\ pc = "reported"
    /\ streamBody.bytes = DataLine("{a}") \o DataLine("[DONE]") \o <<"data: ", "{err,c}">>
    /\ reported = "ok"
    /\ stdout = <<"a">>

\* --------------------------------------------------------------------- C17
\* C17: when the input ends without a sentinel, the result is a successful
\* end of stream and every data line that came before the end and parses
\* as a delta with text has been printed exactly once, in the order of
\* arrival, the last line also when no newline follows it.
C17_EndOfInputPrintsAll ==
    /\ StreamOver
    /\ streamBody.end = "eof"
    /\ \A k \in 1..Len(BodyLines) :
          ~IsSentinelLine(BodyLines[k]) /\ ~IsErrorLine(BodyLines[k])
    => /\ streamErr.nil
       /\ stdout = DeltaTexts(BodyLines)

\* --------------------------------------------------------------------- C18
\* a blank line, a line without the data marker, or a data line whose
\* payload is not JSON
IsSkippedLine(l) ==
    \/ TrimSpace(l) = <<>>
    \/ ~IsDataLine(l)
    \/ IsDataLine(l) /\ ~IsSentinelLine(l) /\ ~ParseData(Payload(l)).ok

NotSkippedLine(l) == ~IsSkippedLine(l)

\* the body without these lines
StrippedBody == Flatten(SelectSeq(SplitLines(streamBody.bytes), NotSkippedLine))

\* C18: blank lines, lines that do not start with the data marker and data
\* lines that are not parseable JSON print nothing, leave the accumulated
\* text alone, do not end the stream and give no error: the printed
\* fragments, the captured text and the returned error are those of the
\* same stream with these lines taken out.
C18_SkippedLinesNoEffect ==
    StreamOver =>
      StreamOutcome = DecodeAll(StrippedBody, streamBody.end, <<>>)

\* an unparseable data line before a delta and a comment behind it
C18_Witness ==
    /\ pc = "reported"
    /\ reported = "ok"
    /\ streamBody.bytes = DataLine("junk") \o DataLine("{a}") \o <<":">>
    /\ stdout = <<"a">>
    /\ capture = <<"a">>

C23_FixedDelayBeforeRetry ==
    \A i \in 1..Len(trace) :
      /\ (IsAttempt(trace[i]) /\ trace[i].retry > 0) =>
            /\ i > 1
            /\ trace[i-1] = Sleep(trace[i].provider, providerConfig.RetryDelayMs)
            /\ i > 2 => IsAttempt(trace[i-2])
      /\ (IsAttempt(trace[i]) /\ trace[i].retry = 0) =>
            (i = 1 \/ IsAttempt(trace[i-1]))
      /\ IsSleep(trace[i]) =>
            /\ i < Len(trace)
            /\ IsAttempt(trace[i+1])
            /\ trace[i+1].retry > 0

C23_Witness ==
    /\ InFallback
    /\ \E i \in 3..Len(trace) :
         /\ i < Len(trace)
         /\ IsAttempt(trace[i]) /\ trace[i].retry > 0
         /\ IsSleep(trace[i-1])
         /\ IsAttempt(trace[i+1]) /\ trace[i+1].retry = 0
         /\ trace[i+1].provider # trace[i].provider
    /\ \E i, j \in 1..Len(trace) :
         /\ i # j
         /\ IsSleep(trace[i]) /\ IsSleep(trace[j])

\* --------------------------------------------------------------------- C24
\* C24: when no provider is eligible (none enabled, or every enabled one
\* without a credential) makeRequestWithFallback makes no network call and
\* no wait and returns a nil response with a non-nil error; the command
\* never reports success.
C24_NoEligibleIsExhausted ==
    (Over /\ EligibleNames = {}) =>
      /\ trace = <<>>
      /\ result.response.nil
      /\ ~result.err.nil
      /\ result.provider = ""
      /\ reported # "ok"

C24_Witness ==
    /\ Over
    /\ pc = "reported"
    /\ EligibleNames = {}
    /\ EnabledNames(providerConfig) # {}
    /\ reported = "error"

\* --------------------------------------------------------------------- C30
Count(order, name) == Cardinality({ i \in 1..Len(order) : order[i] = name })

NoDuplicates(order) == \A n \in BYOKNames : Count(order, n) <= 1

IsPermutation(a, b) == \A n \in BYOKNames : Count(a, n) = Count(b, n)

OrderCommand == \E o \in Orders : setBYOKProviderOrder(o)

C30_OrderStep ==
    OrderCommand => IsPermutation(byokConfig'.ProviderOrder, byokConfig.ProviderOrder)

\* C30: after any sequence of BYOK add, remove and order commands the
\* ProviderOrder list holds no name twice, and a successful order command
\* leaves it a permutation of the list it had before.
C30_OrderIsPermutation ==
    /\ [](~byokConfig.nil => NoDuplicates(byokConfig.ProviderOrder))
    /\ [][C30_OrderStep]_vars

\* --------------------------------------------------------------------- C25
C25_Step ==
    (listProviders /\ prevOrdered # NoListing
                   /\ prevOrdered.Providers = providerConfig.Providers)
      => orderedProviders' = prevOrdered.list

\* C25: for an unchanged policy set getOrderedProviders returns the same
\* list on every call: a call that sees the policy set of the call before
\* it returns the list that call returned.
C25_SameListEveryCall == [][C25_Step]_vars

\* ------------------------------------- the same request with other arguments
\* longest script of provider answers
MaxScript == 3

ScriptOutcomes ==
    { [kind |-> "transport", text |-> TxtTimeout],
      [kind |-> "http", status |-> 200, body |-> JsonBody(<<"content">>, NoError)],
      [kind |-> "http", status |-> 429,
       body |-> JsonBody(<<>>, APIError(MsgRateLimit, TypeRateLimit))] }

Scripts == UNION { [1..k -> ScriptOutcomes] : k \in 1..MaxScript }

\* the answer to the i-th attempt of a request: the script, over and over
ScriptAt(i) == script[((i - 1) % Len(script)) + 1]

\* one turn of the retry loop, answered from the script
ScriptedTry == TryProvider(ScriptAt(Len(Attempts) + 1))

\* a caller runs makeRequestWithFallback again, over the same registry and
\* with the same answers to come, for another provider: endpoint, apiKey
\* and providerName are those of providerName
SecondCall(providerName) ==
    /\ pc = "done"
    /\ firstRun = NoRun
    /\ InFallback
    /\ providerName # requested
    /\ firstRun' = [done |-> TRUE, requested |-> requested,
                    orderedProviders |-> orderedProviders,
                    trace |-> trace, result |-> result]
    /\ requested' = providerName
    /\ orderedProviders' \in DispatchOrder(providerName, providerConfig)
    /\ idx' = 1
    /\ retry' = 0
    /\ attemptedProviders' = {}
    /\ config' = ZeroConfig
    /\ lastError' = NilError
    /\ pc' = "select"
    /\ result' = NoResult
    /\ FreshHistory
    /\ UNCHANGED <<providerConfig, providers, streamingEnabled, reported, script>>
    /\ UNCHANGED <<classifyVars, byokVars, streamVars, listVars, webVars,
                   securityVars, sessionVars>>

\* both requests are over: the process ends
ReplayExit ==
    /\ pc = "done"
    /\ firstRun # NoRun
    /\ firstRun' = NoRun
    /\ providers' = [n \in Names |-> AIProvider(n, "")]
    /\ streamingEnabled' = FALSE
    /\ pc' = "idle"
    /\ requested' = ""
    /\ result' = NoResult
    /\ reported' = "none"
    /\ FreshDispatch
    /\ FreshHistory
    /\ UNCHANGED <<providerConfig, script>>
    /\ UNCHANGED <<classifyVars, byokVars, streamVars, listVars, webVars,
                   securityVars, sessionVars>>

ReplayNext ==
    \/ \E n \in Names, b \in BOOLEAN : toggleProvider(n, b)
    \/ \E n \in Names, env \in Environments : ChatFallback(n, env)
    \/ SkipProvider
    \/ BeginProvider
    \/ ScriptedTry
    \/ Exhausted
    \/ \E n \in Names : SecondCall(n)
    \/ ReplayExit

ReplayInit ==
    /\ ProgramInit
    /\ providerConfig.FallbackEnabled
    /\ \A n \in Names : providerConfig.Providers[n].MaxRetries = DefaultMaxRetries
    /\ QuietInit
    /\ streamBody = NoBody
    /\ script \in Scripts
    /\ chatHistory = NoHistory /\ requests = <<>> /\ tick = 0

ReplaySpec == ReplayInit /\ [][ReplayNext]_vars

MaxWrites == 2

DefaultProvider == "openrouter"

\* what a web action leaves alone outside the registry and the dispatch
WebRest == <<classifyVars, byokVars, streamVars, listVars, replayVars,
             securityVars, sessionVars>>

\* main lines 337 and 365: initProviders, then startWebServer
startWebServer(env) ==
    /\ pc = "idle"
    /\ providers' = [n \in Names |-> AIProvider(n, env.keys[n])]
    /\ pc' = "serving"
    /\ UNCHANGED <<providerConfig, streamingEnabled, requested, result, reported>>
    /\ UNCHANGED dispatchVars
    /\ UNCHANGED historyVars
    /\ UNCHANGED webVars
    /\ UNCHANGED WebRest

\* handleChat up to the call of makeRequestWithFallback and through its
\* lines 2219-2222
handleChat(providerName) ==
    /\ pc = "serving"
    /\ providerName \in DOMAIN providers
    /\ providers[providerName].APIKey # ""
    /\ providerConfig.FallbackEnabled
    /\ requested' = providerName
    /\ orderedProviders' \in DispatchOrder(providerName, providerConfig)
    /\ snapshot' = [taken |-> TRUE, Providers |-> providerConfig.Providers,
                    providers |-> providers]
    /\ cancelled' = FALSE
    /\ idx' = 1
    /\ retry' = 0
    /\ attemptedProviders' = {}
    /\ config' = ZeroConfig
    /\ lastError' = NilError
    /\ pc' = "select"
    /\ result' = NoResult
    /\ reported' = "none"
    /\ FreshHistory
    /\ UNCHANGED <<providerConfig, providers, streamingEnabled, writes>>
    /\ UNCHANGED WebRest

\* handleChat after makeRequestWithFallback: the response is written
handleChatReturn ==
    /\ pc = "done"
    /\ snapshot # NoSnapshot
    /\ reported' = IF ~result.err.nil THEN "error"
                   ELSE IF result.response.Error.present THEN "api_error"
                   ELSE "ok"
    /\ pc' = "serving"
    /\ snapshot' = NoSnapshot
    /\ UNCHANGED <<providerConfig, providers, streamingEnabled, requested, result,
                   cancelled, writes>>
    /\ UNCHANGED dispatchVars
    /\ UNCHANGED historyVars
    /\ UNCHANGED WebRest

\* the client of the chat request goes away while the dispatch runs: the
\* request's context is cancelled
ClientCancel ==
    /\ pc \in {"select", "attempt"}
    /\ snapshot # NoSnapshot
    /\ ~cancelled
    /\ cancelled' = TRUE
    /\ UNCHANGED <<providerConfig, providers, streamingEnabled, pc, requested,
                   result, reported, snapshot, writes>>
    /\ UNCHANGED dispatchVars
    /\ UNCHANGED historyVars
    /\ UNCHANGED WebRest

\* a configuration handler runs in its own goroutine, whatever the chat
\* handlers are doing; no lock is taken
ConfigRequest ==
    /\ pc \in {"serving", "select", "attempt", "done"}
    /\ writes < MaxWrites
    /\ writes' = writes + 1
    /\ UNCHANGED <<streamingEnabled, pc, requested, result, reported, snapshot,
                   cancelled>>
    /\ UNCHANGED dispatchVars
    /\ UNCHANGED historyVars
    /\ UNCHANGED WebRest

handleEnableProvider(providerName) ==
    /\ providerName \in DOMAIN providerConfig.Providers
    /\ providerConfig' =
         [providerConfig EXCEPT !.Providers[providerName].Enabled = TRUE]
    /\ UNCHANGED providers
    /\ ConfigRequest

handleDisableProvider(providerName) ==
    /\ providerName \in DOMAIN providerConfig.Providers
    /\ providerConfig' =
         [providerConfig EXCEPT !.Providers[providerName].Enabled = FALSE]
    /\ UNCHANGED providers
    /\ ConfigRequest

handleSetProviderPriority(providerName, priority) ==
    /\ providerName \in DOMAIN providerConfig.Providers
    /\ providerConfig' =
         [providerConfig EXCEPT !.Providers[providerName].Priority = priority]
    /\ UNCHANGED providers
    /\ ConfigRequest

handleAddProvider(name, priority, apiKey) ==
    /\ name # ""
    /\ name \notin DOMAIN providerConfig.Providers
    /\ providerConfig' =
         [providerConfig EXCEPT !.Providers =
            [n \in DOMAIN providerConfig.Providers \cup {name} |->
               IF n = name THEN AIProviderConfig(priority, TRUE, DefaultMaxRetries)
               ELSE providerConfig.Providers[n]]]
    /\ providers' = [n \in DOMAIN providers \cup {name} |->
                       IF n = name THEN AIProvider(name, apiKey) ELSE providers[n]]
    /\ ConfigRequest

handleDeleteProvider(providerName) ==
    /\ providerName # DefaultProvider
    /\ providerName \in DOMAIN providerConfig.Providers
    /\ providerConfig' =
         [providerConfig EXCEPT !.Providers =
            [n \in DOMAIN providerConfig.Providers \ {providerName} |->
               providerConfig.Providers[n]]]
    /\ providers' = [n \in DOMAIN providers \ {providerName} |-> providers[n]]
    /\ ConfigRequest

\* a handler's write of providerConfig.Providers overlaps the lookup of
\* line 2230: the Go runtime finds the map being written and ends the
\* process ("concurrent map read and map write")
ConcurrentMapAccess ==
    /\ pc = "select"
    /\ snapshot # NoSnapshot
    /\ idx <= Len(orderedProviders)
    /\ writes < MaxWrites
    /\ pc' = "fatal"
    /\ UNCHANGED <<providerConfig, providers, streamingEnabled, requested,
                   result, reported>>
    /\ UNCHANGED dispatchVars
    /\ UNCHANGED historyVars
    /\ UNCHANGED webVars
    /\ UNCHANGED WebRest

WebEnvironments == { env \in Environments : ~env.streaming /\ env.keys["openrouter"] # "" }

WebNext ==
    \/ \E env \in WebEnvironments : startWebServer(env)
    \/ \E n \in Names : handleChat(n)
    \/ handleChatReturn
    \/ ClientCancel
    \/ SkipProvider
    \/ BeginProvider
    \/ \E o \in ScriptOutcomes : TryProvider(o)
    \/ Exhausted
    \/ \E n \in Names : handleEnableProvider(n)
    \/ \E n \in Names : handleDisableProvider(n)
    \/ \E n \in Names, k \in 0..MaxPriority : handleSetProviderPriority(n, k)
    \/ \E n \in CustomNames, k \in AddPriorities : handleAddProvider(n, k, "key")
    \/ \E n \in Names \cup CustomNames : handleDeleteProvider(n)
    \/ ConcurrentMapAccess

WebSpec == StockInit /\ [][WebNext]_vars

\* --------------------------------------------------------------------- C21
SnapshotEligible ==
    { n \in DOMAIN snapshot.Providers :
        /\ snapshot.Providers[n].Enabled
        /\ n \in DOMAIN snapshot.providers
        /\ snapshot.providers[n].APIKey # "" }

\* C21: a dispatch of the web server works on the registry as it was when
\* the dispatch began, whatever configuration requests are served
\* meanwhile: it attempts only providers eligible in that snapshot, a
\* dispatch that ends exhausted has spent the snapshot's whole retry budget
\* on each of them, and the policy map is never read while a handler
\* writes it.
C21_DispatchOnSnapshot ==
    /\ pc # "fatal"
    /\ snapshot # NoSnapshot =>
         /\ \A i \in 1..Len(Attempts) : Attempts[i].provider \in SnapshotEligible
         /\ (pc = "done" /\ ExhaustedResult) =>
              \A n \in SnapshotEligible :
                 AttemptsOn(n) = snapshot.Providers[n].MaxRetries + 1

\* --------------------------------------------------------------------- C22
C22_Step ==
    (cancelled /\ pc = "attempt" /\ retry > 0) => (trace' = trace /\ pc' = "done")

\* C22: a cancellation by the caller aborts a running
\* makeRequestWithFallback: once the request's context is cancelled while
\* the dispatch waits in the delay before a retry, no wait is completed, no
\* further attempt is made and the dispatch returns.
C22_CancelAborts == [][C22_Step]_vars

\* ------------------------------------------------------- login sessions
\* tokens one run of the server hands out
MaxTokens == 2
\* hours the clock of the model runs
MaxClock == 48

\* Authenticate: ExpiresAt is time.Now().Add(24 * time.Hour)
SessionHours == 24
\* the clock moves in steps of half a session lifetime
TickHours == SessionHours \div 2

\* hashPassword: the digest of password + salt; two digests are equal when
\* the concatenations are
hashPassword(password, salt) == password \o salt

User(username, password, salt) ==
    [Username |-> username, Password |-> hashPassword(password, salt), Salt |-> salt]

\* sm.users as loadUsers found them
Users ==
    [u \in {"alice", "bob"} |->
       IF u = "alice" THEN User("alice", <<"p">>, <<"s">>)
       ELSE User("bob", <<"q">>, <<"t">>)]

Usernames == {"alice", "bob", "mallory"}
Passwords == {<<"p">>, <<"q">>}
Tokens == 1..MaxTokens

Session(token, username, at) ==
    [Token |-> token, Username |-> username, Created |-> at,
     ExpiresAt |-> at + SessionHours]

\* variant: a session never expires
Expired_never(session, t) == FALSE

\* time.Now().After(session.ExpiresAt)
Expired(session, t) == t > session.ExpiresAt

\* what a security operation leaves alone
SecurityFrame ==
    /\ UNCHANGED <<providerConfig, providers, streamingEnabled, pc, requested,
                   result, reported>>
    /\ UNCHANGED dispatchVars
    /\ UNCHANGED historyVars
    /\ UNCHANGED <<classifyVars, byokVars, streamVars, listVars, replayVars,
                   webVars, sessionVars>>

\* lines 192-200: the user exists and the password's digest matches
PasswordMatches(username, password) ==
    IF username \in DOMAIN Users
    THEN hashPassword(password, Users[username].Salt) = Users[username].Password
    ELSE FALSE

\* Authenticate, lines 191-212; generateToken gives a token never seen.
\* For an unknown user or a wrong password it returns an error and stores
\* nothing.
Authenticate(username, password) ==
    /\ Cardinality(issued) < MaxTokens
    /\ IF PasswordMatches(username, password)
       THEN LET token == Cardinality(issued) + 1 IN
              /\ sessions' = [t \in DOMAIN sessions \cup {token} |->
                                IF t = token THEN Session(token, username, now)
                                ELSE sessions[t]]
              /\ issued' = issued \cup {[token |-> token, username |-> username,
                                          password |-> password, at |-> now]}
       ELSE UNCHANGED <<sessions, issued>>
    /\ UNCHANGED <<now, revoked, validated>>
    /\ SecurityFrame

\* what a client can send as its token: one the server has handed out, or
\* a string that is no token (0); the 32 random bytes of generateToken are
\* not guessed before they are issued
Presentable == {0} \cup { i.token : i \in issued }

\* ValidateSession, lines 214-226
ValidateSession(token) ==
    /\ token \in Presentable
    /\ IF token \notin DOMAIN sessions
       THEN /\ validated' = [called |-> TRUE, token |-> token, username |-> "",
                             err |-> "session not found", at |-> now,
                             loggedOut |-> token \in revoked]
            /\ UNCHANGED sessions
       ELSE IF Expired(sessions[token], now)
       THEN /\ sessions' = [t \in DOMAIN sessions \ {token} |-> sessions[t]]
            /\ validated' = [called |-> TRUE, token |-> token, username |-> "",
                             err |-> "session expired", at |-> now,
                             loggedOut |-> token \in revoked]
       ELSE /\ validated' = [called |-> TRUE, token |-> token,
                             username |-> sessions[token].Username,
                             err |-> "", at |-> now,
                             loggedOut |-> token \in revoked]
            /\ UNCHANGED sessions
    /\ UNCHANGED <<now, issued, revoked>>
    /\ SecurityFrame

\* Logout, lines 228-230
Logout(token) ==
    /\ token \in Presentable
    /\ token \notin revoked
    /\ sessions' = [t \in DOMAIN sessions \ {token} |-> sessions[t]]
    /\ revoked' = revoked \cup {token}
    /\ UNCHANGED <<now, issued, validated>>
    /\ SecurityFrame

\* CleanupExpiredSessions, lines 232-239
CleanupExpiredSessions ==
    /\ \E t \in DOMAIN sessions : Expired(sessions[t], now)
    /\ sessions' = [t \in { x \in DOMAIN sessions : ~Expired(sessions[x], now) } |->
                      sessions[t]]
    /\ UNCHANGED <<now, issued, revoked, validated>>
    /\ SecurityFrame

\* time passes
Tick ==
    /\ now + TickHours <= MaxClock
    /\ now' = now + TickHours
    /\ UNCHANGED <<sessions, issued, revoked, validated>>
    /\ SecurityFrame

SecurityNext ==
    \/ \E u \in Usernames, p \in Passwords : Authenticate(u, p)
    \/ \E t \in {0} \cup Tokens : ValidateSession(t)
    \/ \E t \in {0} \cup Tokens : Logout(t)
    \/ CleanupExpiredSessions
    \/ Tick

SecuritySpec == StockInit /\ [][SecurityNext]_vars

\* --------------------------------------------------------------------- C28
\* C28: ValidateSession(t) returns a username u only if t was issued by a
\* successful Authenticate for u (an existing user with the matching
\* password), t has not been passed to Logout since, and the 24 hours of t
\* have not passed; an expired token is removed from the session table by
\* the ValidateSession call that rejects it.
C28_ValidOnlyIfIssuedLive ==
    validated # NoValidation =>
      /\ validated.err = "" =>
           \E i \in issued :
             /\ i.token = validated.token
             /\ i.username = validated.username
             /\ PasswordMatches(i.username, i.password)
             /\ ~validated.loggedOut
             /\ validated.at <= i.at + SessionHours
      /\ validated.err = "session expired" =>
           validated.token \notin DOMAIN sessions

C28_Witness ==
    /\ validated # NoValidation
    /\ validated.err = "session expired"
    /\ validated.token = 1
    /\ \E i \in issued : i.token = 2 /\ i.username = "bob"
    /\ 2 \in DOMAIN sessions
    /\ 1 \notin revoked
    /\ 2 \notin revoked

\* ------------------------------------------------------------ chat history
\* The stored chat sessions and the requests that continue, read, list and
\* delete them.  chatHistory.Sessions is one slice shared by every handler
\* goroutine; getSession hands out a pointer to one of its elements, and
\* nothing in the handlers takes a lock.

\* the longest message list a session grows to
MaxMessages == 3

ChatMessage(role, content) == [Role |-> role, Content |-> content]

ChatSession(id, user, updatedAt, messages) ==
    [ID |-> id, User |-> user, UpdatedAt |-> updatedAt, Messages |-> messages]

\* the elements of the slice, in slice order
Sessions(h) == SubSeq(h.array, 1, h.len)

\* loadChatHistory: a history file with one session of each account, the
\* older one first (createSession appends)
StoredHistory ==
    [array |-> << ChatSession("chat_1", "alice", 1,
                     << ChatMessage("user", "m"), ChatMessage("assistant", "r") >>),
                  ChatSession("chat_2", "bob", 2,
                     << ChatMessage("user", "n") >>) >>,
     len |-> 2]

SessionIDs == {"chat_1", "chat_2"}

\* the accounts a validated token can name (authenticate sets X-Username)
Accounts == DOMAIN Users

\* the handler goroutine followed statement by statement; handleListHistory,
\* whose one write to the slice is the sort, runs whole between its steps
Slots == {"g1"}

Idle == [op |-> "none"]

HistoryInit ==
    /\ ProgramInit
    /\ providerConfig.FallbackEnabled
    /\ \A n \in Names : providerConfig.Providers[n].MaxRetries = DefaultMaxRetries
    /\ QuietInit
    /\ streamBody = NoBody
    /\ script = <<>>
    /\ chatHistory = StoredHistory
    /\ requests = [g \in Slots |-> Idle]
    /\ tick = 2

HistoryFrame ==
    /\ UNCHANGED <<providerConfig, providers, streamingEnabled, pc, requested,
                   result, reported>>
    /\ UNCHANGED dispatchVars
    /\ UNCHANGED historyVars
    /\ UNCHANGED <<classifyVars, byokVars, streamVars, listVars, replayVars,
                   webVars, securityVars>>

\* the index of the first element of the slice with this ID, 0 for none
IndexOf(h, sessionID) ==
    IF \E i \in 1..h.len : h.array[i].ID = sessionID
    THEN CHOOSE i \in 1..h.len :
           /\ h.array[i].ID = sessionID
           /\ \A j \in 1..(i - 1) : h.array[j].ID # sessionID
    ELSE 0

\* updateSession: append the message to the session with this ID and stamp
\* it; the slice is left alone when no session has the ID
updateSession(h, sessionID, role, content, at) ==
    LET i == IndexOf(h, sessionID) IN
    IF i = 0 THEN h
    ELSE [h EXCEPT !.array[i].Messages = Append(@, ChatMessage(role, content)),
                   !.array[i].UpdatedAt = at]

\* deleteSession: append(s[:i], s[i+1:]...) moves the later elements one
\* place down inside the same backing array and shortens the slice; the
\* place past the new end keeps what it held
deleteSession(h, sessionID) ==
    LET i == IndexOf(h, sessionID) IN
    IF i = 0 THEN h
    ELSE [array |-> [k \in 1..Len(h.array) |->
                       IF k >= i /\ k < h.len THEN h.array[k + 1] ELSE h.array[k]],
          len |-> h.len - 1]

Arrangements(n) ==
    { f \in [1..n -> 1..n] : \A i, j \in 1..n : i # j => f[i] # f[j] }

\* listSessions: sort.Slice orders the shared slice in place, latest
\* UpdatedAt first; sessions with the same stamp may land either way round
listSessions(h) ==
    { [h EXCEPT !.array = [k \in 1..Len(h.array) |->
                             IF k <= h.len THEN h.array[f[k]] ELSE h.array[k]]] :
        f \in { g \in Arrangements(h.len) :
                  \A i, j \in 1..h.len :
                    i < j => h.array[g[i]].UpdatedAt >= h.array[g[j]].UpdatedAt } }

\* what the pointer getSession returned addresses now
Deref(h, ptr) == h.array[ptr]

RECURSIVE Conversation(_)
\* the loop of sessionWithHistory and handleUpdateSession: the user and
\* assistant messages of a session, in stored order
Conversation(messages) ==
    IF messages = <<>> THEN <<>>
    ELSE IF Head(messages).Role \in {"user", "assistant"}
         THEN <<[Role |-> Head(messages).Role, Content |-> Head(messages).Content]>>
              \o Conversation(Tail(messages))
         ELSE Conversation(Tail(messages))

\* messages := []Message{{Role: "user", Content: message}}, then the
\* session's messages appended after it
BuildMessages(session, message) ==
    <<[Role |-> "user", Content |-> message]>> \o Conversation(session.Messages)

\* a history request reaches its handler behind authenticate
Arrive(g, op, username, sessionID, message) ==
    /\ requests[g] = Idle
    /\ requests' = [requests EXCEPT ![g] =
                      [op |-> op, username |-> username, sessionID |-> sessionID,
                       message |-> message, at |-> "getSession", session |-> 0]]
    /\ UNCHANGED <<chatHistory, sentMessages, effect, tick>>
    /\ HistoryFrame

\* session, err := getSession(sessionID): 404 when no session has the ID
CallGetSession(g) ==
    /\ requests[g] # Idle
    /\ requests[g].at = "getSession"
    /\ LET i == IndexOf(chatHistory, requests[g].sessionID) IN
       requests' = [requests EXCEPT ![g] =
                      IF i = 0 THEN Idle
                      ELSE [@ EXCEPT !.session = i, !.at = "checkUser"]]
    /\ UNCHANGED <<chatHistory, sentMessages, effect, tick>>
    /\ HistoryFrame

\* if session.User != username: 401
CheckUser(g) ==
    /\ requests[g] # Idle
    /\ requests[g].at = "checkUser"
    /\ requests' = [requests EXCEPT ![g] =
                      IF Deref(chatHistory, @.session).User # @.username THEN Idle
                      ELSE [@ EXCEPT !.at = "serve"]]
    /\ UNCHANGED <<chatHistory, sentMessages, effect, tick>>
    /\ HistoryFrame

\* handleGetSession: json.NewEncoder(w).Encode(session)
handleGetSession(g) ==
    /\ requests[g] # Idle
    /\ requests[g].op = "get"
    /\ requests[g].at = "serve"
    /\ effect' = [made |-> TRUE, kind |-> "get", by |-> requests[g].username,
                  owners |-> {Deref(chatHistory, requests[g].session).User}]
    /\ requests' = [requests EXCEPT ![g] = Idle]
    /\ UNCHANGED <<chatHistory, sentMessages, tick>>
    /\ HistoryFrame

\* handleDeleteSession: deleteSession(sessionID)
handleDeleteSession(g) ==
    /\ requests[g] # Idle
    /\ requests[g].op = "delete"
    /\ requests[g].at = "serve"
    /\ LET i == IndexOf(chatHistory, requests[g].sessionID) IN
       /\ chatHistory' = deleteSession(chatHistory, requests[g].sessionID)
       /\ effect' = IF i = 0 THEN effect
                    ELSE [made |-> TRUE, kind |-> "delete",
                          by |-> requests[g].username,
                          owners |-> {chatHistory.array[i].User}]
    /\ requests' = [requests EXCEPT ![g] = Idle]
    /\ UNCHANGED <<sentMessages, tick>>
    /\ HistoryFrame

\* handleUpdateSession, to the dispatch: updateSession stores the new user
\* message, then the message list is built from the session the pointer
\* addresses
handleUpdateSession(g) ==
    /\ requests[g] # Idle
    /\ requests[g].op = "update"
    /\ requests[g].at = "serve"
    /\ LET i == IndexOf(chatHistory, requests[g].sessionID)
           stored == chatHistory.array[i].Messages
           h == updateSession(chatHistory, requests[g].sessionID, "user",
                              requests[g].message, tick)
       IN
       /\ i # 0 => Len(stored) < MaxMessages
       /\ chatHistory' = h
       /\ sentMessages' =
            [built |-> TRUE, by |-> "handleUpdateSession",
             stored |-> IF i = 0 THEN <<>> ELSE Conversation(stored),
             message |-> requests[g].message,
             messages |-> BuildMessages(Deref(h, requests[g].session),
                                        requests[g].message)]
       /\ effect' = IF i = 0 THEN effect
                    ELSE [made |-> TRUE, kind |-> "update",
                          by |-> requests[g].username,
                          owners |-> {chatHistory.array[i].User}]
    /\ requests' = [requests EXCEPT ![g].at = "reply"]
    /\ tick' = tick + 1
    /\ HistoryFrame

\* handleUpdateSession, after the dispatch: an answer is stored with
\* updateSession(sessionID, "assistant", content); a failed dispatch
\* stores nothing
handleUpdateReply(g, answered) ==
    /\ requests[g] # Idle
    /\ requests[g].at = "reply"
    /\ LET i == IndexOf(chatHistory, requests[g].sessionID)
           room == i # 0 /\ Len(chatHistory.array[i].Messages) < MaxMessages
       IN
       IF answered /\ room
       THEN /\ chatHistory' = updateSession(chatHistory, requests[g].sessionID,
                                            "assistant", "r", tick)
            /\ tick' = tick + 1
       ELSE UNCHANGED <<chatHistory, tick>>
    /\ requests' = [requests EXCEPT ![g] = Idle]
    /\ UNCHANGED <<sentMessages, effect>>
    /\ HistoryFrame

\* handleListHistory: listSessions re-sorts the shared slice, then the
\* sessions whose User is the caller are returned
handleListHistory(username) ==
    /\ \E h \in listSessions(chatHistory) :
         /\ chatHistory' = h
         /\ effect' = [made |-> TRUE, kind |-> "list", by |-> username,
                       owners |-> { h.array[i].User :
                                      i \in { k \in 1..h.len :
                                                h.array[k].User = username } }]
    /\ UNCHANGED <<requests, sentMessages, tick>>
    /\ HistoryFrame

\* the CLI continues a stored session: startREPLWithSession hands
\* sessionWithHistory the session and the line the user typed; an answer is
\* stored with updateSession(session.ID, "assistant", ...)
sessionWithHistory(sessionID, message, answered) ==
    /\ \A g \in Slots : requests[g] = Idle
    /\ LET i == IndexOf(chatHistory, sessionID) IN
       /\ i # 0
       /\ Len(chatHistory.array[i].Messages) < MaxMessages
       /\ sentMessages' =
            [built |-> TRUE, by |-> "sessionWithHistory",
             stored |-> Conversation(chatHistory.array[i].Messages),
             message |-> message,
             messages |-> BuildMessages(chatHistory.array[i], message)]
       /\ IF answered
          THEN /\ chatHistory' = updateSession(chatHistory, sessionID,
                                               "assistant", "r", tick)
               /\ tick' = tick + 1
          ELSE UNCHANGED <<chatHistory, tick>>
    /\ UNCHANGED <<requests, effect>>
    /\ HistoryFrame

HistoryOps == {"get", "update", "delete"}

HistoryNext ==
    \/ \E g \in Slots, op \in HistoryOps, u \in Accounts, id \in SessionIDs :
         Arrive(g, op, u, id, "q")
    \/ \E g \in Slots : CallGetSession(g)
    \/ \E g \in Slots : CheckUser(g)
    \/ \E g \in Slots : handleGetSession(g)
    \/ \E g \in Slots : handleDeleteSession(g)
    \/ \E g \in Slots : handleUpdateSession(g)
    \/ \E g \in Slots, answered \in BOOLEAN : handleUpdateReply(g, answered)
    \/ \E u \in Accounts : handleListHistory(u)
    \/ \E id \in SessionIDs, answered \in BOOLEAN :
         sessionWithHistory(id, "q", answered)

HistorySpec == HistoryInit /\ [][HistoryNext]_vars

\* --------------------------------------------------------------------- C26
\* C26: when a stored session is continued, by sessionWithHistory or by
\* handleUpdateSession, the message list sent to the provider is the
\* session's stored user and assistant messages in insertion order followed
\* by the new user message, each exactly once.
C26_HistoryThenNewMessage ==
    sentMessages # NoMessages =>
      sentMessages.messages =
        sentMessages.stored \o <<[Role |-> "user", Content |-> sentMessages.message]>>

\* --------------------------------------------------------------------- C29
\* C29: whatever a history request of one account reads, appends to or
\* deletes is a session whose User is that account, under every
\* interleaving of the handlers.
C29_OwnSessionsOnly ==
    effect # NoEffect => effect.owners \subseteq {effect.by}

====
